---- MODULE Spec2Model ----
(***************************************************************************)
(* Verification model of the CakeDeFi -> kryptosekken converter:           *)
(*   - decimal.Decimal values and their str()/Decimal() conversions,       *)
(*   - BalanceTracker (src/src/balance_tracker.py): load, replay, save,    *)
(*   - the yearly validation loop of CakeTransactionProcessor,             *)
(*   - OperationMapper (src/src/operation_mapper.py),                      *)
(*   - TransactionGrouper.group_transactions and the group converter.      *)
(***************************************************************************)
EXTENDS Integers, Sequences, FiniteSets, TLC

(***************************************************************************)
(* Generic helpers                                                         *)
(***************************************************************************)
Min(a, b) == IF a <= b THEN a ELSE b

Max(a, b) == IF a >= b THEN a ELSE b

Abs(n) == IF n < 0 THEN 0 - n ELSE n

RECURSIVE Pow10(_)
Pow10(n) == IF n <= 0 THEN 1 ELSE 10 * Pow10(n - 1)

Range(s) == {s[i] : i \in 1..Len(s)}

Take(s, n) == SubSeq(s, 1, Min(n, Len(s)))

RECURSIVE Repeat(_, _)
Repeat(ch, n) == IF n <= 0 THEN <<>> ELSE <<ch>> \o Repeat(ch, n - 1)

\* The empty mapping ({} in Python).
EmptyMap == <<>>

\* dict item assignment: m[k] = v
MapPut(m, k, v) == [x \in (DOMAIN m) \cup {k} |-> IF x = k THEN v ELSE m[x]]

(***************************************************************************)
(* decimal.Decimal: a value is coefficient * 10^exponent.  The coefficient *)
(* carries the sign; the sign of a zero is not represented.  All values of *)
(* the model stay far below the 28 significant digits of the default       *)
(* context, so no operation rounds.                                        *)
(***************************************************************************)
Dec(c, e) == [c |-> c, e |-> e]

\* Decimal() / Decimal("0"): the default of defaultdict(Decimal)
DecZero == Dec(0, 0)

\* coefficient of d when written with the (smaller or equal) exponent e
Coef(d, e) == IF d.c = 0 THEN 0 ELSE d.c * Pow10(d.e - e)

DecAdd(a, b) == LET e == Min(a.e, b.e) IN Dec(Coef(a, e) + Coef(b, e), e)

DecSub(a, b) == LET e == Min(a.e, b.e) IN Dec(Coef(a, e) - Coef(b, e), e)

DecAbs(a) == Dec(Abs(a.c), a.e)

DecLt(a, b) == LET e == Min(a.e, b.e) IN Coef(a, e) < Coef(b, e)

\* Decimal.__eq__ compares numerically: Decimal("2.0") == Decimal("2")
DecEq(a, b) == LET e == Min(a.e, b.e) IN Coef(a, e) = Coef(b, e)

\* bool(Decimal): zero is falsy
DecTruthy(a) == a.c # 0

(***************************************************************************)
(* Text is a sequence of one-character strings.                            *)
(***************************************************************************)
DigitChars == <<"0", "1", "2", "3", "4", "5", "6", "7", "8", "9">>

IsDigit(ch) == ch \in Range(DigitChars)

DigitVal(ch) == (CHOOSE i \in 1..10 : DigitChars[i] = ch) - 1

RECURSIVE NatToStr(_)
NatToStr(n) ==
    IF n < 10 THEN <<DigitChars[n + 1]>>
    ELSE NatToStr(n \div 10) \o <<DigitChars[(n % 10) + 1]>>

RECURSIVE StrToNat(_)
StrToNat(s) ==
    IF s = <<>> THEN 0
    ELSE 10 * StrToNat(SubSeq(s, 1, Len(s) - 1)) + DigitVal(s[Len(s)])

\* index just past the run of digits of s that starts at index i
DigitsEnd(s, i) ==
    CHOOSE j \in i..(Len(s) + 1) :
        /\ \A k \in i..(j - 1) : IsDigit(s[k])
        /\ (j = Len(s) + 1 \/ ~IsDigit(s[j]))

\* str(int)
IntToStr(n) == IF n < 0 THEN <<"-">> \o NatToStr(0 - n) ELSE NatToStr(n)

\* int(str): an optional sign and at least one digit, else ValueError
IntFromStr(s) ==
    LET signed == s # <<>> /\ s[1] \in {"-", "+"}
        first  == IF signed THEN 2 ELSE 1
        stop   == DigitsEnd(s, first)
        ok     == first <= Len(s) /\ stop = Len(s) + 1
    IN  [ok |-> ok,
         n  |-> IF ~ok THEN 0
                ELSE IF signed /\ s[1] = "-"
                     THEN 0 - StrToNat(SubSeq(s, first, Len(s)))
                     ELSE StrToNat(SubSeq(s, first, Len(s)))]

\* a formatting that drops the exponent of the scientific notation
DecimalToStrNoExponent(d) ==
    LET sign       == IF d.c < 0 THEN <<"-">> ELSE <<>>
        int        == NatToStr(Abs(d.c))
        leftdigits == d.e + Len(int)
        dotplace   == IF d.e <= 0 /\ leftdigits > 0 - 6 THEN leftdigits ELSE 1
        intpart    == IF dotplace <= 0 THEN <<"0">>
                      ELSE IF dotplace >= Len(int)
                           THEN int \o Repeat("0", dotplace - Len(int))
                           ELSE SubSeq(int, 1, dotplace)
        fracpart   == IF dotplace <= 0
                      THEN <<".">> \o Repeat("0", 0 - dotplace) \o int
                      ELSE IF dotplace >= Len(int) THEN <<>>
                           ELSE <<".">> \o SubSeq(int, dotplace + 1, Len(int))
    IN  sign \o intpart \o fracpart

\* Decimal.__str__: plain notation when the exponent is <= 0 and the value has
\* more than -6 digits left of the point, scientific notation otherwise.
DecimalToStr(d) ==
    LET sign       == IF d.c < 0 THEN <<"-">> ELSE <<>>
        int        == NatToStr(Abs(d.c))
        leftdigits == d.e + Len(int)
        dotplace   == IF d.e <= 0 /\ leftdigits > 0 - 6 THEN leftdigits ELSE 1
        intpart    == IF dotplace <= 0 THEN <<"0">>
                      ELSE IF dotplace >= Len(int)
                           THEN int \o Repeat("0", dotplace - Len(int))
                           ELSE SubSeq(int, 1, dotplace)
        fracpart   == IF dotplace <= 0
                      THEN <<".">> \o Repeat("0", 0 - dotplace) \o int
                      ELSE IF dotplace >= Len(int) THEN <<>>
                           ELSE <<".">> \o SubSeq(int, dotplace + 1, Len(int))
        x          == leftdigits - dotplace
        exp        == IF x = 0 THEN <<>>
                      ELSE <<"E">> \o (IF x < 0 THEN <<"-">> ELSE <<"+">>)
                                   \o NatToStr(Abs(x))
    IN  sign \o intpart \o fracpart \o exp

\* Decimal(str): [sign] digits [. digits] [E [sign] digits], with at least one
\* digit in the mantissa; anything else raises decimal.InvalidOperation.
\* (The literals NaN and Infinity are outside the modelled alphabet.)
DecimalFromStr(s) ==
    LET n        == Len(s)
        signed   == n >= 1 /\ s[1] \in {"-", "+"}
        i0       == IF signed THEN 2 ELSE 1
        i1       == DigitsEnd(s, i0)
        hasdot   == i1 <= n /\ s[i1] = "."
        f0       == IF hasdot THEN i1 + 1 ELSE i1
        f1       == IF hasdot THEN DigitsEnd(s, f0) ELSE i1
        intpart  == SubSeq(s, i0, i1 - 1)
        fracpart == SubSeq(s, f0, f1 - 1)
        hasexp   == f1 <= n /\ s[f1] \in {"E", "e"}
        esigned  == hasexp /\ f1 + 1 <= n /\ s[f1 + 1] \in {"-", "+"}
        e0       == IF esigned THEN f1 + 2 ELSE f1 + 1
        e1       == IF hasexp THEN DigitsEnd(s, Min(e0, n + 1)) ELSE f1
        expdigs  == IF hasexp THEN SubSeq(s, e0, e1 - 1) ELSE <<>>
        expval   == IF esigned /\ s[f1 + 1] = "-"
                    THEN 0 - StrToNat(expdigs) ELSE StrToNat(expdigs)
        ok       == /\ Len(intpart) + Len(fracpart) >= 1
                    /\ (hasexp => expdigs # <<>>)
                    /\ e1 = n + 1
        coef     == StrToNat(intpart \o fracpart)
    IN  [ok |-> ok,
         d  |-> IF ~ok THEN DecZero
                ELSE Dec(IF signed /\ s[1] = "-" THEN 0 - coef ELSE coef,
                         expval - Len(fracpart))]

(***************************************************************************)
(* Currency codes are text, so that '"-" in currency' is computed.         *)
(***************************************************************************)
BTC == <<"B", "T", "C">>

ETH == <<"E", "T", "H">>

BTC_DFI == <<"B", "T", "C", "-", "D", "F", "I">>

\* a missing (None / empty) currency column
NoCurrency == <<>>

\* src/src/constants.py
NEGLIGIBLE_AMOUNT == Dec(1, 0 - 8)

BALANCE_TOLERANCE == Dec(1, 0 - 6)

\* report size of process_and_validate_year: sorted_problems[:5]
TopProblems == 5

(***************************************************************************)
(* KryptosekkenTransaction as loaded by the validator.  An optional amount *)
(* is <<>> (None) or <<d>>.                                                *)
(***************************************************************************)
None == <<>>

Some(d) == <<d>>

HANDEL == "Handel"

INNTEKT == "Inntekt"

ERVERV == "Erverv"

OVERFORING_INN == "Overforing-Inn"

OVERFORING_UT == "Overforing-Ut"

FORVALTNINGSKOSTNAD == "Forvaltningskostnad"

VALID_TRANSACTION_TYPES ==
    {HANDEL, ERVERV, "Mining", INNTEKT, "Tap", "Forbruk", "Renteinntekt",
     OVERFORING_INN, OVERFORING_UT, "Gave-Inn", "Gave-Ut", "Tap-uten-fradrag",
     FORVALTNINGSKOSTNAD}

Tx(row, type, inn, inn_valuta, ut, ut_valuta, gebyr, gebyr_valuta) ==
    [row |-> row, type |-> type,
     inn |-> inn, inn_valuta |-> inn_valuta,
     ut |-> ut, ut_valuta |-> ut_valuta,
     gebyr |-> gebyr, gebyr_valuta |-> gebyr_valuta]

\* '(x := get_field(amount)) and (y := get_field(currency))': both truthy
LegPresent(amount, currency) ==
    amount # None /\ DecTruthy(amount[1]) /\ currency # NoCurrency

Delta(currency, amount, is_outflow, desc) ==
    [currency |-> currency, amount |-> amount,
     is_outflow |-> is_outflow, desc |-> desc]

\* a leg order that credits the incoming leg first
GetTransactionDeltasInflowFirst(tx) ==
    (IF LegPresent(tx.inn, tx.inn_valuta)
     THEN <<Delta(tx.inn_valuta, tx.inn[1], FALSE, "inflow")>> ELSE <<>>)
    \o
    (IF LegPresent(tx.ut, tx.ut_valuta)
     THEN <<Delta(tx.ut_valuta, tx.ut[1], TRUE, "outflow")>> ELSE <<>>)
    \o
    (IF LegPresent(tx.gebyr, tx.gebyr_valuta)
     THEN <<Delta(tx.gebyr_valuta, tx.gebyr[1], TRUE, "fee")>> ELSE <<>>)

\* BalanceTracker._get_transaction_deltas: outflow, fee, then inflow
GetTransactionDeltas(tx) ==
    (IF LegPresent(tx.ut, tx.ut_valuta)
     THEN <<Delta(tx.ut_valuta, tx.ut[1], TRUE, "outflow")>> ELSE <<>>)
    \o
    (IF LegPresent(tx.gebyr, tx.gebyr_valuta)
     THEN <<Delta(tx.gebyr_valuta, tx.gebyr[1], TRUE, "fee")>> ELSE <<>>)
    \o
    (IF LegPresent(tx.inn, tx.inn_valuta)
     THEN <<Delta(tx.inn_valuta, tx.inn[1], FALSE, "inflow")>> ELSE <<>>)

\* a negligibility test without the absolute value
IsNegligibleSigned(amount) == DecLt(amount, NEGLIGIBLE_AMOUNT)

\* BalanceTracker._is_negligible
IsNegligible(amount) == DecLt(DecAbs(amount), NEGLIGIBLE_AMOUNT)

\* a seeding that falls back to the latest earlier year on record
GetStartingBalancesLatest(history, year) ==
    LET earlier == {y \in DOMAIN history : y < year}
    IN  IF earlier = {} THEN EmptyMap
        ELSE history[CHOOSE y \in earlier : \A z \in earlier : z <= y]

\* BalanceTracker.get_starting_balances
GetStartingBalances(history, year) ==
    IF (year - 1) \in DOMAIN history THEN history[year - 1] ELSE EmptyMap

\* running_balances[currency] of a defaultdict(Decimal)
BalanceOf(running, currency) ==
    IF currency \in DOMAIN running THEN running[currency] ELSE DecZero

\* a replay that refuses the debit when the balance does not cover it
ApplyDeltaNoOverdraft(st, tx, d) ==
    LET available == BalanceOf(st.running, d.currency)
    IN  IF d.is_outflow
        THEN [running  |-> IF DecLt(available, d.amount) THEN st.running
                           ELSE MapPut(st.running, d.currency,
                                       DecSub(available, d.amount)),
              problems |-> IF DecLt(available, d.amount)
                           THEN Append(st.problems,
                                  [row         |-> tx.row,
                                   currency    |-> d.currency,
                                   attempted   |-> d.amount,
                                   available   |-> available,
                                   deficit     |-> DecSub(d.amount, available),
                                   transaction |-> <<tx.row, tx.type, d.desc>>])
                           ELSE st.problems]
        ELSE [running  |-> MapPut(st.running, d.currency,
                                  DecAdd(available, d.amount)),
              problems |-> st.problems]

\* one iteration of the inner loop of process_and_validate_year
ApplyDelta(st, tx, d) ==
    LET available == BalanceOf(st.running, d.currency)
    IN  IF d.is_outflow
        THEN [running  |-> MapPut(st.running, d.currency,
                                  DecSub(available, d.amount)),
              problems |-> IF DecLt(available, d.amount)
                           THEN Append(st.problems,
                                  [row         |-> tx.row,
                                   currency    |-> d.currency,
                                   attempted   |-> d.amount,
                                   available   |-> available,
                                   deficit     |-> DecSub(d.amount, available),
                                   transaction |-> <<tx.row, tx.type, d.desc>>])
                           ELSE st.problems]
        ELSE [running  |-> MapPut(st.running, d.currency,
                                  DecAdd(available, d.amount)),
              problems |-> st.problems]

RECURSIVE ApplyDeltas(_, _, _)
ApplyDeltas(st, tx, ds) ==
    IF ds = <<>> THEN st
    ELSE ApplyDeltas(ApplyDelta(st, tx, Head(ds)), tx, Tail(ds))

\* a replay that stops at the first row that leaves a problem entry
RECURSIVE ReplayStopsAtDeficit(_, _)
ReplayStopsAtDeficit(st, txs) ==
    IF txs = <<>> \/ st.problems # <<>> THEN st
    ELSE ReplayStopsAtDeficit(ApplyDeltas(st, Head(txs), GetTransactionDeltas(Head(txs))),
                              Tail(txs))

\* the replay loop 'for tx in transactions' of process_and_validate_year
RECURSIVE Replay(_, _)
Replay(st, txs) ==
    IF txs = <<>> THEN st
    ELSE Replay(ApplyDeltas(st, Head(txs), GetTransactionDeltas(Head(txs))),
                Tail(txs))

\* an insertion that sorts the smallest deficit first
RECURSIVE InsertByDeficitAscending(_, _)
InsertByDeficitAscending(sorted, p) ==
    IF sorted = <<>> THEN <<p>>
    ELSE IF DecLt(p.deficit, Head(sorted).deficit)
         THEN <<p>> \o sorted
         ELSE <<Head(sorted)>> \o InsertByDeficitAscending(Tail(sorted), p)

\* insert p behind every entry whose deficit is >= its own (stable)
RECURSIVE InsertByDeficit(_, _)
InsertByDeficit(sorted, p) ==
    IF sorted = <<>> THEN <<p>>
    ELSE IF DecLt(Head(sorted).deficit, p.deficit)
         THEN <<p>> \o sorted
         ELSE <<Head(sorted)>> \o InsertByDeficit(Tail(sorted), p)

\* sorted(problematic_txs, key=lambda p: p["deficit"], reverse=True)
RECURSIVE SortProblems(_)
SortProblems(ps) ==
    IF ps = <<>> THEN <<>>
    ELSE InsertByDeficit(SortProblems(SubSeq(ps, 1, Len(ps) - 1)), ps[Len(ps)])

NoProblem == [row |-> 0, currency |-> NoCurrency, attempted |-> DecZero,
              available |-> DecZero, deficit |-> DecZero,
              transaction |-> <<0, "", "">>]

ErrorLine(kind, count, problem) ==
    [kind |-> kind, count |-> count, problem |-> problem]

\* the 'errors' list of the report: a header line, one line for each of the
\* first five sorted problems, and a '... and N more.' line
BuildErrors(problems) ==
    IF problems = <<>> THEN <<>>
    ELSE LET sorted == SortProblems(problems)
             top    == Take(sorted, TopProblems)
         IN  <<ErrorLine("header", Len(problems), NoProblem)>>
             \o [i \in 1..Len(top) |-> ErrorLine("problem", i, top[i])]
             \o (IF Len(sorted) > TopProblems
                 THEN <<ErrorLine("more", Len(sorted) - TopProblems, NoProblem)>>
                 ELSE <<>>)

\* BalanceTracker.process_and_validate_year: the report and the new history
ProcessAndValidateYear(history, year, transactions) ==
    LET starting_balances == GetStartingBalances(history, year)
        final  == Replay([running |-> starting_balances, problems |-> <<>>],
                         transactions)
        final_balances ==
            [cur \in {k \in DOMAIN final.running :
                        ~IsNegligible(final.running[k])} |-> final.running[cur]]
        errors == BuildErrors(final.problems)
    IN  [history |-> MapPut(history, year, final_balances),
         report  |-> [valid                    |-> errors = <<>>,
                      errors                   |-> errors,
                      info                     |-> IF errors = <<>> THEN 1 ELSE 0,
                      starting_balances        |-> starting_balances,
                      ending_balances          |-> final_balances,
                      problematic_transactions |-> final.problems],
         running_balances |-> final.running]

(***************************************************************************)
(* KryptosekkenValidator.validate_csv_file on the loaded rows.  Every row  *)
(* of a yearly file carries a timestamp of that year and currency codes    *)
(* that match CURRENCY_CODE_PATTERN, so those checks raise nothing; the    *)
(* info lines and the ratio / fee-percentage / NOK-note warnings are not   *)
(* part of the model.                                                      *)
(***************************************************************************)
RECURSIVE Flatten(_)
Flatten(ss) == IF ss = <<>> THEN <<>> ELSE Head(ss) \o Flatten(Tail(ss))

Issue(tag, ok) == IF ok THEN <<>> ELSE <<tag>>

\* '"-" in currency and currency not in ["NOK", "USD", "EUR"]'
IsLPToken(currency) == "-" \in Range(currency)

\* KryptosekkenValidator._validate_structure_and_fields, errors of one row
StructureErrors(tx) ==
    Issue("Type is a required field", tx.type # "")
    \o Issue("Invalid Type", tx.type = "" \/ tx.type \in VALID_TRANSACTION_TYPES)
    \o Issue("must have Inn or Ut", ~(tx.inn = None /\ tx.ut = None))
    \o Issue("Inn-Valuta is missing", ~(tx.inn # None /\ tx.inn_valuta = NoCurrency))
    \o Issue("Ut-Valuta is missing", ~(tx.ut # None /\ tx.ut_valuta = NoCurrency))
    \o Issue("Gebyr-Valuta is missing",
             ~(tx.gebyr # None /\ tx.gebyr_valuta = NoCurrency))

\* KryptosekkenValidator._validate_transaction_logic, errors of one row
LogicErrors(tx) ==
    IF tx.type = HANDEL
    THEN Issue("Handel missing Inn or Ut", ~(tx.inn = None \/ tx.ut = None))
         \o Issue("Handel with same currency",
                  ~(tx.inn_valuta # NoCurrency /\ tx.ut_valuta # NoCurrency
                    /\ tx.inn_valuta = tx.ut_valuta))
    ELSE IF tx.type = INNTEKT
    THEN Issue("Inntekt missing Inn", tx.inn # None)
         \o Issue("Inntekt with non-positive amount",
                  ~(tx.inn # None /\ DecTruthy(tx.inn[1]) /\ tx.inn[1].c <= 0))
    ELSE IF tx.type = OVERFORING_INN
    THEN Issue("Overforing-Inn missing Inn", tx.inn # None)
    ELSE IF tx.type = OVERFORING_UT
    THEN Issue("Overforing-Ut missing Ut", tx.ut # None)
    ELSE <<>>

\* KryptosekkenValidator._validate_official_field_requirements, one row
OfficialErrors(tx) ==
    Issue("Type is required", tx.type # "")
    \o Issue("Invalid Type (official)",
             tx.type = "" \/ tx.type \in VALID_TRANSACTION_TYPES)

\* net change of one currency over the file, as _validate_currency_balances
\* accumulates it: '+= inn', '-= ut', '-= gebyr' for amounts that are not None
RECURSIVE NetBalance(_, _)
NetBalance(txs, cur) ==
    IF txs = <<>> THEN DecZero
    ELSE LET tx   == txs[Len(txs)]
             b0   == NetBalance(SubSeq(txs, 1, Len(txs) - 1), cur)
             b1   == IF tx.inn # None /\ tx.inn_valuta = cur
                     THEN DecAdd(b0, tx.inn[1]) ELSE b0
             b2   == IF tx.ut # None /\ tx.ut_valuta = cur
                     THEN DecSub(b1, tx.ut[1]) ELSE b1
         IN  IF tx.gebyr # None /\ tx.gebyr_valuta = cur
             THEN DecSub(b2, tx.gebyr[1]) ELSE b2

\* the currencies that get an entry in currency_balances
TouchedCurrencies(txs) ==
    {tx.inn_valuta : tx \in {t \in Range(txs) :
                               t.inn # None /\ t.inn_valuta # NoCurrency}}
    \cup {tx.ut_valuta : tx \in {t \in Range(txs) :
                               t.ut # None /\ t.ut_valuta # NoCurrency}}
    \cup {tx.gebyr_valuta : tx \in {t \in Range(txs) :
                               t.gebyr # None /\ t.gebyr_valuta # NoCurrency}}

\* KryptosekkenValidator._validate_currency_balances: the regular currencies
\* and the LP tokens whose net balance is below -BALANCE_TOLERANCE
NegativeBalances(txs) ==
    {cur \in TouchedCurrencies(txs) :
        /\ DecLt(NetBalance(txs, cur), DecSub(DecZero, BALANCE_TOLERANCE))
        /\ ~IsLPToken(cur)}

NegativeLPTokens(txs) ==
    {cur \in TouchedCurrencies(txs) :
        /\ DecLt(NetBalance(txs, cur), DecSub(DecZero, BALANCE_TOLERANCE))
        /\ IsLPToken(cur)}

HasZeroAmount(tx) ==
    \/ (tx.inn # None /\ ~DecTruthy(tx.inn[1]))
    \/ (tx.ut # None /\ ~DecTruthy(tx.ut[1]))
    \/ (tx.gebyr # None /\ ~DecTruthy(tx.gebyr[1]))

\* KryptosekkenValidator.validate_csv_file and _build_result
ValidateCsvFile(txs) ==
    IF txs = <<>>
    THEN [valid |-> TRUE, transaction_count |-> 0, errors |-> <<>>,
          warnings |-> <<"CSV file is empty">>]
    ELSE LET errors ==
                 Flatten([i \in 1..Len(txs) |-> StructureErrors(txs[i])])
                 \o Flatten([i \in 1..Len(txs) |-> LogicErrors(txs[i])])
                 \o Flatten([i \in 1..Len(txs) |-> OfficialErrors(txs[i])])
                 \o Issue("Negative currency balances",
                          NegativeBalances(txs) = {})
             warnings ==
                 Issue("LP token negative balances", NegativeLPTokens(txs) = {})
                 \o Issue("zero amounts", \A i \in 1..Len(txs) : ~HasZeroAmount(txs[i]))
         IN  [valid |-> errors = <<>>, transaction_count |-> Len(txs),
              errors |-> errors, warnings |-> warnings]

(***************************************************************************)
(* The persisted balance state: a file that may be missing, unreadable,    *)
(* not JSON, or hold a JSON document.                                      *)
(***************************************************************************)
JObject(members) == [kind |-> "object", members |-> members, s |-> <<>>]

JString(s) == [kind |-> "string", members |-> EmptyMap, s |-> s]

JArray == [kind |-> "array", members |-> EmptyMap, s |-> <<>>]

JNull == [kind |-> "null", members |-> EmptyMap, s |-> <<>>]

MissingFile == [exists |-> FALSE, readable |-> FALSE, json |-> FALSE, doc |-> JNull]

UnreadableFile == [exists |-> TRUE, readable |-> FALSE, json |-> FALSE, doc |-> JNull]

NotJsonFile == [exists |-> TRUE, readable |-> TRUE, json |-> FALSE, doc |-> JNull]

JsonFile(doc) == [exists |-> TRUE, readable |-> TRUE, json |-> TRUE, doc |-> doc]

\* the exception, if any, that converting one member of the document raises:
\* int(year), then balances.items(), then Decimal(amount)
MemberError(doc, year) ==
    LET balances == doc.members[year]
    IN  IF ~IntFromStr(year).ok THEN "ValueError"
        ELSE IF balances.kind # "object" THEN "AttributeError"
        ELSE IF \E cur \in DOMAIN balances.members :
                   balances.members[cur].kind # "string" THEN "TypeError"
        ELSE IF \E cur \in DOMAIN balances.members :
                   ~DecimalFromStr(balances.members[cur].s).ok
             THEN "InvalidOperation"
        ELSE "none"

\* BalanceTracker._load_balance_state.  OSError and json.JSONDecodeError are
\* caught and give an empty history; any other exception leaves the
\* constructor.  (Documents of the model have at most one malformed member
\* and no two year keys of the same integer value.)
LoadBalanceState(file) ==
    IF ~file.exists \/ ~file.readable \/ ~file.json
    THEN [raised |-> "none", history |-> EmptyMap]
    ELSE IF file.doc.kind # "object"
    THEN [raised |-> "AttributeError", history |-> EmptyMap]
    ELSE LET doc    == file.doc
             failed == {y \in DOMAIN doc.members : MemberError(doc, y) # "none"}
         IN  IF failed # {}
             THEN [raised  |-> MemberError(doc, CHOOSE y \in failed : TRUE),
                   history |-> EmptyMap]
             ELSE [raised  |-> "none",
                   history |->
                     [y \in {IntFromStr(k).n : k \in DOMAIN doc.members} |->
                        LET k == CHOOSE k \in DOMAIN doc.members :
                                     IntFromStr(k).n = y
                            balances == doc.members[k].members
                        IN  [cur \in DOMAIN balances |->
                                DecimalFromStr(balances[cur].s).d]]]

\* the document written by BalanceTracker.save_balance_state
SerializeHistory(history) ==
    JObject([k \in {IntToStr(y) : y \in DOMAIN history} |->
               LET y == CHOOSE y \in DOMAIN history : IntToStr(y) = k
               IN  JObject([cur \in {c \in DOMAIN history[y] :
                                       ~IsNegligible(history[y][c])} |->
                              JString(DecimalToStr(history[y][cur]))])])

(***************************************************************************)
(* OperationMapper.  An operation label is the sequence of the words that  *)
(* label.split(" ") yields, so "Add liquidity " is <<"Add", "liquidity",   *)
(* "">> and label.startswith(p) for a prefix p that ends in a space is a   *)
(* test on the leading words.                                              *)
(***************************************************************************)
\* variant that also accepts the bare prefix, without the trailing space
StartsWithWordsLoose(label, prefix) ==
    /\ Len(label) >= Len(prefix)
    /\ SubSeq(label, 1, Len(prefix)) = prefix

\* label.startswith(prefix + " ") for a prefix given as its words
StartsWithWords(label, prefix) ==
    /\ Len(label) > Len(prefix)
    /\ SubSeq(label, 1, Len(prefix)) = prefix

ENTRY_STAKING_WALLET == <<"Entry", "staking", "wallet">>

EXIT_STAKING_WALLET == <<"Exit", "staking", "wallet">>

ADDED_LIQUIDITY == <<"Added", "liquidity">>

REMOVED_LIQUIDITY == <<"Removed", "liquidity">>

DEPOSIT == <<"Deposit">>

WITHDREW_FOR_SWAP == <<"Withdrew", "for", "swap">>

PAID_SWAP_FEE == <<"Paid", "swap", "fee">>

CONVERTED_ETH_SHARES == <<"Converted", "ETH", "Staking", "Shares", "to", "csETH">>

STAKING_REWARD == <<"Staking", "reward">>

OPERATION_MAPPING ==
       (STAKING_REWARD :> INNTEKT)
    @@ (<<"Freezer", "staking", "bonus">> :> INNTEKT)
    @@ (<<"5", "years", "freezer", "reward">> :> INNTEKT)
    @@ (<<"Freezer", "liquidity", "mining", "bonus">> :> INNTEKT)
    @@ (<<"Earn", "reward">> :> INNTEKT)
    @@ (<<"YieldVault", "reward">> :> INNTEKT)
    @@ (<<"Referral", "reward">> :> INNTEKT)
    @@ (<<"Lending", "reward">> :> INNTEKT)
    @@ (<<"Promotion", "bonus">> :> INNTEKT)
    @@ (<<"Rewards", "from", "DeFiChain", "voting">> :> INNTEKT)
    @@ (ENTRY_STAKING_WALLET :> INNTEKT)
    @@ (<<"Entry", "staking", "wallet:", "Signup", "bonus">> :> INNTEKT)
    @@ (<<"Entry", "staking", "wallet:", "Referral", "signup", "bonus">> :> INNTEKT)
    @@ (<<"Entry", "staking", "wallet:", "Promotion", "bonus">> :> INNTEKT)
    @@ (DEPOSIT :> ERVERV)
    @@ (<<"Withdrawal">> :> OVERFORING_UT)
    @@ (EXIT_STAKING_WALLET :> OVERFORING_INN)
    @@ (<<"Exited", "Earn">> :> HANDEL)
    @@ (<<"Exited", "YieldVault">> :> OVERFORING_INN)
    @@ (<<"Adjusted", "Earn", "entry">> :> OVERFORING_INN)
    @@ (REMOVED_LIQUIDITY :> HANDEL)
    @@ (<<"Address", "creation", "fee">> :> FORVALTNINGSKOSTNAD)
    @@ (<<"Withdrawal", "fee">> :> FORVALTNINGSKOSTNAD)
    @@ (ADDED_LIQUIDITY :> HANDEL)
    @@ (<<"Entered", "YieldVault">> :> OVERFORING_UT)
    @@ (<<"Entered", "Earn">> :> HANDEL)
    @@ (WITHDREW_FOR_SWAP :> OVERFORING_UT)
    @@ (PAID_SWAP_FEE :> FORVALTNINGSKOSTNAD)
    @@ (CONVERTED_ETH_SHARES :> INNTEKT)
    @@ (<<"Buy", "token">> :> INNTEKT)

ADD_LIQUIDITY_PREFIX == <<"Add", "liquidity">>

REMOVE_LIQUIDITY_PREFIX == <<"Remove", "liquidity">>

LIQUIDITY_MINING_REWARD_PREFIX == <<"Liquidity", "mining", "reward">>

\* the exception get_transaction_type raises for an unknown label
ValueError == "ValueError"

\* float(tx.amount).  Of the float the mapper reads only whether it is below
\* zero, so the rounding of the coefficient to 53 bits is left out; what is
\* kept is the underflow: a magnitude of at most half the smallest subnormal
\* (2.47...E-324) becomes 0.0 or -0.0, and -0.0 < 0 is False.  The test is
\* exact for coefficients of at most two digits.
RECURSIVE NumDigits(_)
NumDigits(n) == IF n < 10 THEN 1 ELSE 1 + NumDigits(n \div 10)

FloatUnderflows(d) ==
    LET n        == Abs(d.c)
        adjusted == d.e + NumDigits(n) - 1
    IN  \/ adjusted < 0 - 324
        \/ /\ adjusted = 0 - 324
           /\ (IF n < 10 THEN 10 * n ELSE n \div Pow10(NumDigits(n) - 2)) < 25

ToFloat(d) == IF d.c = 0 \/ FloatUnderflows(d) THEN DecZero ELSE d

\* amount < 0 on a float
FloatNegative(f) == f.c < 0

\* the 'Entry staking wallet' rule widened to every label that begins
\* with those words
GetTransactionTypeSignForFamily(operation, amount) ==
    IF StartsWithWordsLoose(operation, <<"Entry", "staking">>) /\ amount # None
    THEN IF FloatNegative(amount[1]) THEN OVERFORING_UT ELSE INNTEKT
    ELSE IF operation \in DOMAIN OPERATION_MAPPING
    THEN OPERATION_MAPPING[operation]
    ELSE IF \/ StartsWithWords(operation, ADD_LIQUIDITY_PREFIX)
            \/ StartsWithWords(operation, REMOVE_LIQUIDITY_PREFIX)
    THEN HANDEL
    ELSE IF StartsWithWords(operation, LIQUIDITY_MINING_REWARD_PREFIX)
    THEN INNTEKT
    ELSE ValueError

\* OperationMapper.get_transaction_type; amount is None or a float
GetTransactionType(operation, amount) ==
    IF operation = ENTRY_STAKING_WALLET /\ amount # None
    THEN IF FloatNegative(amount[1]) THEN OVERFORING_UT ELSE INNTEKT
    ELSE IF operation \in DOMAIN OPERATION_MAPPING
    THEN OPERATION_MAPPING[operation]
    ELSE IF \/ StartsWithWords(operation, ADD_LIQUIDITY_PREFIX)
            \/ StartsWithWords(operation, REMOVE_LIQUIDITY_PREFIX)
    THEN HANDEL
    ELSE IF StartsWithWords(operation, LIQUIDITY_MINING_REWARD_PREFIX)
    THEN INNTEKT
    ELSE ValueError

\* OperationMapper.is_income_operation: a ValueError gives False
IsIncomeOperation(operation, amount) ==
    GetTransactionType(operation, amount) = INNTEKT

\* OperationMapper.is_trade_operation: the amount is not passed on
IsTradeOperation(operation) ==
    GetTransactionType(operation, None) = HANDEL

\* OperationMapper.should_skip_transaction
ShouldSkipTransaction(operation, amount) ==
    /\ operation = ENTRY_STAKING_WALLET
    /\ amount # None
    /\ FloatNegative(amount[1])

STATIC_GROUPING_OPERATIONS ==
    {WITHDREW_FOR_SWAP, PAID_SWAP_FEE, DEPOSIT, ADDED_LIQUIDITY,
     REMOVED_LIQUIDITY, CONVERTED_ETH_SHARES}

\* OperationMapper.requires_grouping
RequiresGrouping(operation) ==
    \/ operation \in STATIC_GROUPING_OPERATIONS
    \/ StartsWithWords(operation, ADD_LIQUIDITY_PREFIX)
    \/ StartsWithWords(operation, REMOVE_LIQUIDITY_PREFIX)


(***************************************************************************)
(* CakeTransaction and TransactionGrouper.group_transactions.  A date is   *)
(* an instant t in minutes since Monday 2022-01-03 00:00 UTC together with *)
(* its UTC offset tz in minutes; an empty reference column is None, which  *)
(* is the empty string here.                                               *)
(***************************************************************************)
NoReference == ""

DateAt(t, tz) == [t |-> t, tz |-> tz]

CakeTransaction(date, operation, amount, coin_asset, fiat_value, reference, related) ==
    [date                 |-> date,
     operation            |-> operation,
     amount               |-> amount,
     coin_asset           |-> coin_asset,
     fiat_value           |-> fiat_value,
     reference            |-> reference,
     related_reference_id |-> related,
     original_index       |-> 0]

TransactionGroup(transactions, group_type, reference_id) ==
    [transactions |-> transactions,
     group_type   |-> group_type,
     reference_id |-> reference_id]

MinutesPerDay == 1440

DaysPerWeek == 7

MAX_TIME_DELTA == 10

\* datetime.date() of an aware datetime: the calendar day in its own offset
DateOf(date) == (date.t + date.tz) \div MinutesPerDay

\* group_date - timedelta(days=group_date.weekday())
MondayOf(day) == day - (day % DaysPerWeek)

\* tuples of integers in Python's lexicographic order
RECURSIVE LexLess(_, _)
LexLess(a, b) ==
    IF a = <<>> \/ b = <<>> THEN a = <<>> /\ b # <<>>
    ELSE \/ Head(a) < Head(b)
         \/ Head(a) = Head(b) /\ LexLess(Tail(a), Tail(b))

\* list.sort(key=...) is stable: the item at rank r of the sorted list
StableSort(items, keys) ==
    LET n       == Len(items)
        rank(i) == Cardinality({j \in 1..n : \/ LexLess(keys[j], keys[i])
                                             \/ keys[j] = keys[i] /\ j < i}) + 1
    IN  [r \in 1..n |-> items[CHOOSE i \in 1..n : rank(i) = r]]

\* tx_list.sort(key=lambda t: t.date)
SortByDate(txs) == StableSort(txs, [i \in 1..Len(txs) |-> <<txs[i].date.t>>])

RECURSIVE SortedIndices(_)
SortedIndices(S) ==
    IF S = {} THEN <<>>
    ELSE LET i == CHOOSE i \in S : \A j \in S : i <= j
         IN  <<i>> \o SortedIndices(S \ {i})

\* a defaultdict(list) filled in list order: its items() in insertion order
Buckets(items, keys) ==
    LET n     == Len(items)
        first == SortedIndices({i \in 1..n : \A j \in 1..(i - 1) : keys[j] # keys[i]})
    IN  [b \in 1..Len(first) |->
            LET members == SortedIndices({i \in 1..n : keys[i] = keys[first[b]]})
            IN  [key   |-> keys[first[b]],
                 items |-> [m \in 1..Len(members) |-> items[members[m]]]]]

\* TransactionGroup.timestamp: the earliest member
GroupTimestamp(group) == SortByDate(group.transactions)[1].date

\* step 1 of group_transactions: enumerate, set original_index, filter
SkipsTransaction(tx) == ShouldSkipTransaction(tx.operation, Some(ToFloat(tx.amount)))

WithOriginalIndex(transactions) ==
    [i \in 1..Len(transactions) |-> [transactions[i] EXCEPT !.original_index = i - 1]]

\* a filter that keeps every event
FilterTransactionsKeepAll(transactions) == WithOriginalIndex(transactions)

FilterTransactions(transactions) ==
    SelectSeq(WithOriginalIndex(transactions), LAMBDA tx : ~SkipsTransaction(tx))

\* step 2: correlated by related_reference_id, or standalone
IsCorrelated(tx) ==
    tx.related_reference_id # NoReference /\ RequiresGrouping(tx.operation)

\* an attachment of any standalone row whose reference names a group
AttachesToAnyLabel(tx, keys) ==
    /\ tx.reference # NoReference
    /\ tx.reference \in keys

\* step 3: a liquidity result row joins the group named by its reference
AttachesTo(tx, keys) ==
    /\ tx.reference # NoReference
    /\ tx.operation \in {ADDED_LIQUIDITY, REMOVED_LIQUIDITY}
    /\ tx.reference \in keys

InitialGroups(transactions) ==
    LET correlated == SelectSeq(transactions, IsCorrelated)
        single     == SelectSeq(transactions, LAMBDA tx : ~IsCorrelated(tx))
        byRef      == Buckets(correlated,
                              [i \in 1..Len(correlated) |->
                                   correlated[i].related_reference_id])
        keys       == {byRef[b].key : b \in 1..Len(byRef)}
    IN  [groups  |-> [b \in 1..Len(byRef) |->
                        byRef[b].items \o
                        SelectSeq(single,
                                  LAMBDA tx : AttachesTo(tx, keys)
                                              /\ tx.reference = byRef[b].key)],
         singles |-> SelectSeq(single, LAMBDA tx : ~AttachesTo(tx, keys))]

\* a split that also starts a new sub-group at a gap of exactly MAX_TIME_DELTA
RECURSIVE SplitByGapAtLimit(_, _)
SplitByGapAtLimit(sorted, current) ==
    IF sorted = <<>> THEN <<current>>
    ELSE IF Head(sorted).date.t - current[Len(current)].date.t >= MAX_TIME_DELTA
         THEN <<current>> \o SplitByGapAtLimit(Tail(sorted), <<Head(sorted)>>)
         ELSE SplitByGapAtLimit(Tail(sorted), Append(current, Head(sorted)))

\* step 4: a gap of more than MAX_TIME_DELTA starts a new sub-group
RECURSIVE SplitByGap(_, _)
SplitByGap(sorted, current) ==
    IF sorted = <<>> THEN <<current>>
    ELSE IF Head(sorted).date.t - current[Len(current)].date.t > MAX_TIME_DELTA
         THEN <<current>> \o SplitByGap(Tail(sorted), <<Head(sorted)>>)
         ELSE SplitByGap(Tail(sorted), Append(current, Head(sorted)))

SplitGroup(tx_list) ==
    LET sorted == SortByDate(tx_list)
    IN  SplitByGap(Tail(sorted), <<Head(sorted)>>)

\* op.startswith("Add liquidity"), without a trailing space; no label of the
\* model has a second word that merely begins with "liquidity"
StartsWithBare(operation, prefix) ==
    Len(operation) >= Len(prefix) /\ SubSeq(operation, 1, Len(prefix)) = prefix

\* TransactionGrouper._determine_group_type
DetermineGroupType(transactions) ==
    LET ops == {transactions[i].operation : i \in 1..Len(transactions)}
    IN  IF \E op \in ops : StartsWithBare(op, ADD_LIQUIDITY_PREFIX) \/ op = ADDED_LIQUIDITY
        THEN "add_liquidity"
        ELSE IF \E op \in ops : \/ StartsWithBare(op, REMOVE_LIQUIDITY_PREFIX)
                                \/ op = REMOVED_LIQUIDITY
        THEN "remove_liquidity"
        ELSE "swap"

CorrelatedGroup(tx_list) ==
    TransactionGroup(tx_list, DetermineGroupType(tx_list),
                     IF tx_list[1].related_reference_id # NoReference
                     THEN tx_list[1].related_reference_id
                     ELSE tx_list[1].reference)

IsIncome(tx) == IsIncomeOperation(tx.operation, Some(ToFloat(tx.amount)))

\* an aggregation that leaves the daily groups as they are
AggregateEthDailyToWeeklySkipped(eth_daily_groups) == eth_daily_groups

\* TransactionGrouper._aggregate_eth_daily_to_weekly
AggregateEthDailyToWeekly(eth_daily_groups) ==
    LET weekly == Buckets(eth_daily_groups,
                          [i \in 1..Len(eth_daily_groups) |->
                               MondayOf(DateOf(GroupTimestamp(eth_daily_groups[i])))])
    IN  [w \in 1..Len(weekly) |->
            TransactionGroup(
                SortByDate(Flatten([g \in 1..Len(weekly[w].items) |->
                                        weekly[w].items[g].transactions])),
                "daily_rewards", NoReference)]

\* a reward grouping keyed by currency alone
GroupDailyRewardsByCurrency(transactions) ==
    LET income == SelectSeq(transactions, IsIncome)
        daily  == Buckets(income, [i \in 1..Len(income) |-> income[i].coin_asset])
        many   == SelectSeq(daily, LAMBDA b : Len(b.items) > 1)
    IN  [g \in 1..Len(many) |->
            TransactionGroup(SortByDate(many[g].items), "daily_rewards", NoReference)]

\* TransactionGrouper._group_daily_rewards
GroupDailyRewards(transactions) ==
    LET income == SelectSeq(transactions, IsIncome)
        daily  == Buckets(income,
                          [i \in 1..Len(income) |->
                               <<DateOf(income[i].date), income[i].coin_asset>>])
        many   == SelectSeq(daily, LAMBDA b : Len(b.items) > 1)
        groups == [g \in 1..Len(many) |->
                      TransactionGroup(SortByDate(many[g].items), "daily_rewards",
                                       NoReference)]
        eth    == SelectSeq(groups, LAMBDA g : g.transactions[1].coin_asset = ETH)
        other  == SelectSeq(groups, LAMBDA g : g.transactions[1].coin_asset # ETH)
    IN  IF eth # <<>> THEN other \o AggregateEthDailyToWeekly(eth) ELSE other

\* TransactionGrouper._get_group_economic_priority; no group ever has the
\* type "liquidity"
GetGroupEconomicPriority(group) ==
    IF \E i \in 1..Len(group.transactions) : IsIncome(group.transactions[i]) THEN 1
    ELSE IF group.group_type = "swap" THEN 2
    ELSE IF group.group_type = "liquidity" THEN 3
    ELSE 4

\* variant without the position of the first member
GroupSortKeyNoPosition(group) ==
    <<GroupTimestamp(group).t, GetGroupEconomicPriority(group)>>

GroupSortKey(group) ==
    <<GroupTimestamp(group).t, GetGroupEconomicPriority(group),
      group.transactions[1].original_index>>

MembersOf(groups) ==
    UNION {{groups[g].transactions[i].original_index :
               i \in 1..Len(groups[g].transactions)} : g \in 1..Len(groups)}

\* TransactionGrouper.group_transactions
GroupTransactions(input) ==
    LET transactions  == FilterTransactions(input)
        initial       == InitialGroups(transactions)
        split_groups  == Flatten([b \in 1..Len(initial.groups) |->
                                      SplitGroup(initial.groups[b])])
        correlated    == [g \in 1..Len(split_groups) |->
                              CorrelatedGroup(split_groups[g])]
        reward_groups == GroupDailyRewards(initial.singles)
        grouped_ids   == MembersOf(reward_groups)
        remaining     == SelectSeq(initial.singles,
                                   LAMBDA tx : tx.original_index \notin grouped_ids)
        single_groups == [s \in 1..Len(remaining) |->
                              TransactionGroup(<<remaining[s]>>, "single", NoReference)]
        final_groups  == correlated \o reward_groups \o single_groups
    IN  [groups        |-> StableSort(final_groups,
                                      [g \in 1..Len(final_groups) |->
                                           GroupSortKey(final_groups[g])]),
         skipped_count |-> Len(input) - Len(transactions)]


(***************************************************************************)
(* CurrencyConverter: the USD/NOK rate of a day, found on that day, else   *)
(* up to LOOKUP_RANGE_DAYS back, else as many days forward, else the       *)
(* fallback rate; a converted amount is rounded to NOK_PRECISION.          *)
(***************************************************************************)
LOOKUP_RANGE_DAYS == 14

FALLBACK_USD_NOK_RATE == Dec(100, 0 - 1)

\* exponent of NOK_PRECISION = Decimal("0.01")
NOK_PRECISION == 0 - 2

\* the loaded EXR data: day number -> rate
RateCache == (0 :> Dec(1026, 0 - 2)) @@ (1 :> Dec(875, 0 - 2))

\* CurrencyConverter._find_rate_for_date; <<>> when no day in range has a rate
FindRateForDate(day) ==
    IF day \in DOMAIN RateCache THEN Some(RateCache[day])
    ELSE IF \E k \in 1..LOOKUP_RANGE_DAYS : (day - k) \in DOMAIN RateCache
    THEN LET k == CHOOSE k \in 1..LOOKUP_RANGE_DAYS :
                     /\ (day - k) \in DOMAIN RateCache
                     /\ \A j \in 1..(k - 1) : (day - j) \notin DOMAIN RateCache
         IN  Some(RateCache[day - k])
    ELSE IF \E k \in 1..LOOKUP_RANGE_DAYS : (day + k) \in DOMAIN RateCache
    THEN LET k == CHOOSE k \in 1..LOOKUP_RANGE_DAYS :
                     /\ (day + k) \in DOMAIN RateCache
                     /\ \A j \in 1..(k - 1) : (day + j) \notin DOMAIN RateCache
         IN  Some(RateCache[day + k])
    ELSE None

\* CurrencyConverter.get_usd_to_nok_rate
GetUsdToNokRate(date) ==
    LET rate == FindRateForDate((date.t + date.tz) \div 1440)
    IN  IF rate = None THEN FALLBACK_USD_NOK_RATE ELSE rate[1]

DecMul(a, b) == Dec(a.c * b.c, a.e + b.e)

\* Decimal.quantize(Decimal("0.01")) in the default context: ROUND_HALF_EVEN
Quantize(d, e) ==
    IF d.e >= e THEN Dec(Coef(d, e), e)
    ELSE LET q    == Pow10(e - d.e)
             n    == Abs(d.c)
             down == n \div q
             rest == n % q
             up   == \/ 2 * rest > q
                     \/ 2 * rest = q /\ down % 2 = 1
             m    == IF up THEN down + 1 ELSE down
         IN  Dec(IF d.c < 0 THEN 0 - m ELSE m, e)

\* CurrencyConverter.convert_usd_to_nok
ConvertUsdToNok(usd_amount, date) ==
    IF usd_amount.c = 0 THEN DecZero
    ELSE Quantize(DecMul(usd_amount, GetUsdToNokRate(date)), NOK_PRECISION)

(***************************************************************************)
(* The group converter.  A canonical transaction carries its note as the   *)
(* text the note is built from, the NOK value written into it (or none)    *)
(* and whether it is marked as an incomplete DeFi operation; the cleaning  *)
(* of the label text by simplify_operation is not part of the model.       *)
(***************************************************************************)
Note(text, nok, incomplete) == [text |-> text, nok |-> nok, incomplete |-> incomplete]

KryptosekkenTransaction(tidspunkt, type, inn, inn_valuta, ut, ut_valuta, gebyr, gebyr_valuta, notat) ==
    [tidspunkt    |-> tidspunkt,
     type         |-> type,
     inn          |-> inn,
     inn_valuta   |-> inn_valuta,
     ut           |-> ut,
     ut_valuta    |-> ut_valuta,
     gebyr        |-> gebyr,
     gebyr_valuta |-> gebyr_valuta,
     notat        |-> notat]

IncomingOnly(tidspunkt, type, amount, currency, notat) ==
    KryptosekkenTransaction(tidspunkt, type, Some(amount), currency, None, NoCurrency,
                            None, NoCurrency, notat)

OutgoingOnly(tidspunkt, type, amount, currency, notat) ==
    KryptosekkenTransaction(tidspunkt, type, None, NoCurrency, Some(amount), currency,
                            None, NoCurrency, notat)

\* the outcome of a conversion: the transactions returned, the warnings
\* printed, and the exception raised ("none" when it returned)
Converted(txs, warnings) == [txs |-> txs, warnings |-> warnings, raised |-> "none"]

Raised(exception) == [txs |-> <<>>, warnings |-> <<>>, raised |-> exception]

PROBLEMATIC_OPERATIONS ==
    {<<"Add", "liquidity">>, <<"Remove", "liquidity">>, <<"Entered", "Earn">>,
     <<"Exited", "Earn">>}

\* abs(tx.amount)
SingleAmount(tx) == DecAbs(tx.amount)

\* TransactionGrouper._convert_single_transaction
ConvertSingleTransaction(tx) ==
    LET tx_type   == GetTransactionType(tx.operation, Some(ToFloat(tx.amount)))
        nok_value == ConvertUsdToNok(DecAbs(tx.fiat_value), tx.date)
        plain     == Note(tx.operation, None, FALSE)
        amount    == SingleAmount(tx)
    IN  IF tx_type = ValueError THEN Raised(ValueError)
        ELSE IF tx_type = INNTEKT
        THEN Converted(<<IncomingOnly(tx.date, tx_type, amount, tx.coin_asset,
                            Note(tx.operation,
                                 IF DecTruthy(nok_value) THEN Some(nok_value) ELSE None,
                                 FALSE))>>, <<>>)
        ELSE IF tx_type = OVERFORING_INN
        THEN Converted(<<IncomingOnly(tx.date, tx_type, amount, tx.coin_asset, plain)>>,
                       <<>>)
        ELSE IF tx_type \in {OVERFORING_UT, FORVALTNINGSKOSTNAD}
        THEN Converted(<<OutgoingOnly(tx.date, tx_type, amount, tx.coin_asset, plain)>>,
                       <<>>)
        ELSE IF \E op \in PROBLEMATIC_OPERATIONS : StartsWithBare(tx.operation, op)
        THEN IF tx.amount.c < 0
             THEN Converted(<<OutgoingOnly(tx.date, OVERFORING_UT, amount, tx.coin_asset,
                                 Note(tx.operation, None, TRUE))>>, <<>>)
             ELSE Converted(<<IncomingOnly(tx.date, OVERFORING_INN, amount,
                                 tx.coin_asset, Note(tx.operation, None, TRUE))>>, <<>>)
        ELSE Converted(<<KryptosekkenTransaction(tx.date, tx_type,
                            IF tx.amount.c > 0 THEN Some(amount) ELSE None,
                            IF tx.amount.c > 0 THEN tx.coin_asset ELSE NoCurrency,
                            IF tx.amount.c < 0 THEN Some(amount) ELSE None,
                            IF tx.amount.c < 0 THEN tx.coin_asset ELSE NoCurrency,
                            None, NoCurrency, plain)>>, <<>>)


\* sum(...) of Decimals
RECURSIVE DecSum(_)
DecSum(ds) ==
    IF ds = <<>> THEN DecZero
    ELSE IF Len(ds) = 1 THEN Head(ds)
    ELSE DecAdd(Head(ds), DecSum(Tail(ds)))

\* the warning _fallback_conversion prints for a group
FallbackWarning(group) == [warning |-> "unresolvable group", timestamp |-> GroupTimestamp(group)]

RECURSIVE ConvertEach(_)
ConvertEach(txs) ==
    IF txs = <<>> THEN Converted(<<>>, <<>>)
    ELSE LET first == ConvertSingleTransaction(Head(txs))
             rest  == ConvertEach(Tail(txs))
         IN  IF first.raised # "none" THEN first
             ELSE IF rest.raised # "none" THEN rest
             ELSE Converted(first.txs \o rest.txs, <<>>)

\* variant that converts the first member only
FallbackConversionFirstOnly(group) ==
    LET each == ConvertEach(<<group.transactions[1]>>)
    IN  IF each.raised # "none" THEN each
        ELSE Converted(each.txs, <<FallbackWarning(group)>>)

\* TransactionGrouper._fallback_conversion
FallbackConversion(group) ==
    LET each == ConvertEach(group.transactions)
    IN  IF each.raised # "none" THEN each
        ELSE Converted(each.txs, <<FallbackWarning(group)>>)

\* variant that converts the summed fiat value once
TotalNokValueOfSum(transactions) ==
    ConvertUsdToNok(DecSum([i \in 1..Len(transactions) |->
                               DecAbs(transactions[i].fiat_value)]),
                    transactions[1].date)

\* total_nok_value of _convert_daily_rewards_group: each member converted at
\* its own date, then added
TotalNokValue(transactions) ==
    DecSum([i \in 1..Len(transactions) |->
               ConvertUsdToNok(DecAbs(transactions[i].fiat_value), transactions[i].date)])

\* TransactionGrouper._convert_daily_rewards_group
ConvertDailyRewardsGroup(group) ==
    LET txs      == group.transactions
        total    == DecSum([i \in 1..Len(txs) |-> txs[i].amount])
        template == txs[1]
    IN  Converted(<<IncomingOnly(GroupTimestamp(group), INNTEKT, DecAbs(total),
                        template.coin_asset,
                        [text  |-> IF template.coin_asset = ETH THEN "Weekly" ELSE "Daily",
                         nok   |-> Some(TotalNokValue(txs)),
                         incomplete |-> FALSE,
                         count |-> Len(txs)])>>, <<>>)

\* variant that leaves the fee slot empty
SecondAmountNone(assets) == None

\* the second asset of a liquidity group goes into the fee slot
SecondAmount(assets) == IF Len(assets) > 1 THEN Some(DecAbs(assets[2].amount)) ELSE None

SecondCurrency(assets) == IF Len(assets) > 1 THEN assets[2].coin_asset ELSE NoCurrency

\* TransactionGrouper._convert_add_liquidity_group
ConvertAddLiquidityGroup(group) ==
    LET receipts   == SelectSeq(group.transactions,
                                LAMBDA tx : tx.operation = ADDED_LIQUIDITY)
        provisions == SelectSeq(group.transactions,
                                LAMBDA tx : StartsWithBare(tx.operation,
                                                           ADD_LIQUIDITY_PREFIX))
    IN  IF receipts # <<>> /\ Len(provisions) >= 1
        THEN LET lp_receipt == receipts[1]
             IN  Converted(<<KryptosekkenTransaction(lp_receipt.date, HANDEL,
                                Some(DecAbs(lp_receipt.amount)), lp_receipt.coin_asset,
                                Some(DecAbs(provisions[1].amount)),
                                provisions[1].coin_asset,
                                SecondAmount(provisions), SecondCurrency(provisions),
                                Note("Add liquidity",
                                     Some(ConvertUsdToNok(DecAbs(lp_receipt.fiat_value),
                                                          lp_receipt.date)),
                                     FALSE))>>, <<>>)
        ELSE IF receipts = <<>> /\ Len(provisions) > 0
        THEN Converted(<<>>, <<>>)
        ELSE IF receipts # <<>> /\ provisions = <<>>
        THEN LET lp_receipt == receipts[1]
             IN  Converted(<<IncomingOnly(lp_receipt.date, OVERFORING_INN,
                                DecAbs(lp_receipt.amount), lp_receipt.coin_asset,
                                Note("Received LP token",
                                     Some(ConvertUsdToNok(DecAbs(lp_receipt.fiat_value),
                                                          lp_receipt.date)),
                                     TRUE))>>, <<>>)
        ELSE FallbackConversion(group)

\* TransactionGrouper._convert_remove_liquidity_group
ConvertRemoveLiquidityGroup(group) ==
    LET disposals == SelectSeq(group.transactions,
                               LAMBDA tx : tx.operation = REMOVED_LIQUIDITY)
        returns   == SelectSeq(group.transactions,
                               LAMBDA tx : StartsWithBare(tx.operation,
                                                          REMOVE_LIQUIDITY_PREFIX))
    IN  IF disposals # <<>> /\ Len(returns) >= 1
        THEN LET lp_disposal == disposals[1]
             IN  Converted(<<KryptosekkenTransaction(GroupTimestamp(group), HANDEL,
                                Some(DecAbs(returns[1].amount)), returns[1].coin_asset,
                                Some(DecAbs(lp_disposal.amount)), lp_disposal.coin_asset,
                                SecondAmount(returns), SecondCurrency(returns),
                                Note("Remove liquidity",
                                     Some(ConvertUsdToNok(DecAbs(lp_disposal.fiat_value),
                                                          GroupTimestamp(group))),
                                     FALSE))>>, <<>>)
        ELSE FallbackConversion(group)


\* a defaultdict(Decimal) as its items() in insertion order
DictKeys(d) == {d[i].k : i \in 1..Len(d)}

DictGet(d, key) ==
    IF key \in DictKeys(d)
    THEN (d[CHOOSE i \in 1..Len(d) : d[i].k = key]).v
    ELSE DecZero

\* d[key] += amount
DictAdd(d, key, amount) ==
    IF key \in DictKeys(d)
    THEN [i \in 1..Len(d) |-> IF d[i].k = key
                              THEN [k |-> key, v |-> DecAdd(d[i].v, amount)]
                              ELSE d[i]]
    ELSE Append(d, [k |-> key, v |-> amount])

\* d.pop(key, None)
DictPop(d, key) == SelectSeq(d, LAMBDA item : item.k # key)

\* tolerance of the netting in _convert_swap_group
SWAP_NET_TOLERANCE == Dec(1, 0 - 9)

\* "Converted" in tx.operation; in the labels of the model the text occurs
\* only as a whole word
\* a test that takes every label for a conversion
MentionsConvertedAlways(operation) == TRUE

MentionsConverted(operation) == \E i \in 1..Len(operation) : operation[i] = "Converted"

\* the first loop of _convert_swap_group: flows by currency
RECURSIVE SwapFlows(_, _)
SwapFlows(txs, flows) ==
    IF txs = <<>> THEN flows
    ELSE LET tx     == Head(txs)
             amount == DecAbs(tx.amount)
             sorted == IF tx.operation = PAID_SWAP_FEE
                       THEN [flows EXCEPT !.fee = DictAdd(@, tx.coin_asset, amount)]
                       ELSE IF tx.amount.c < 0
                       THEN [flows EXCEPT !.outgoing = DictAdd(@, tx.coin_asset, amount)]
                       ELSE IF tx.amount.c > 0
                       THEN [flows EXCEPT !.incoming = DictAdd(@, tx.coin_asset, amount)]
                       ELSE flows
         IN  SwapFlows(Tail(txs),
                       IF MentionsConverted(tx.operation)
                       THEN [sorted EXCEPT !.conversion = <<tx.operation>>]
                       ELSE sorted)

\* the second loop: a currency that comes in and goes out in equal amounts
\* is removed from all three
RECURSIVE NetOut(_, _)
NetOut(currencies, flows) ==
    IF currencies = <<>> THEN flows
    ELSE LET currency == Head(currencies)
             net == DecSub(DictGet(flows.incoming, currency),
                           DecAdd(DictGet(flows.outgoing, currency),
                                  DictGet(flows.fee, currency)))
         IN  NetOut(Tail(currencies),
                    IF /\ currency \in DictKeys(flows.outgoing) \cup DictKeys(flows.fee)
                       /\ DecLt(DecAbs(net), SWAP_NET_TOLERANCE)
                    THEN [flows EXCEPT !.incoming = DictPop(@, currency),
                                       !.outgoing = DictPop(@, currency),
                                       !.fee = DictPop(@, currency)]
                    ELSE flows)

NetFlows(group) ==
    LET flows == SwapFlows(group.transactions,
                           [incoming |-> <<>>, outgoing |-> <<>>, fee |-> <<>>,
                            conversion |-> <<>>])
    IN  NetOut([i \in 1..Len(flows.incoming) |-> flows.incoming[i].k], flows)

\* variant that fills the fee slot from the second outgoing currency
SwapFeeItemFromOutgoing(flows) ==
    IF Len(flows.outgoing) > 1 THEN <<flows.outgoing[2]>> ELSE <<>>

\* list(fee_txs.items())[0] if fee_txs else (None, None)
SwapFeeItem(flows) == IF flows.fee # <<>> THEN <<flows.fee[1]>> ELSE <<>>

\* TransactionGrouper._convert_swap_group
ConvertSwapGroup(group) ==
    LET flows == NetFlows(group)
        fee   == SwapFeeItem(flows)
    IN  IF Len(flows.incoming) = 1 /\ Len(flows.outgoing) >= 1
        THEN Converted(<<KryptosekkenTransaction(GroupTimestamp(group), HANDEL,
                            Some(flows.incoming[1].v), flows.incoming[1].k,
                            Some(flows.outgoing[1].v), flows.outgoing[1].k,
                            IF fee # <<>> THEN Some(fee[1].v) ELSE None,
                            IF fee # <<>> THEN fee[1].k ELSE NoCurrency,
                            [text |-> "Swap", nok |-> None, incomplete |-> FALSE,
                             count |-> Len(group.transactions)])>>, <<>>)
        ELSE IF Len(flows.incoming) = 1 /\ flows.outgoing = <<>> /\ flows.conversion # <<>>
        THEN LET received == SelectSeq(group.transactions, LAMBDA tx : tx.amount.c > 0)
                 usd      == DecSum([i \in 1..Len(received) |-> received[i].fiat_value])
             IN  Converted(<<IncomingOnly(GroupTimestamp(group), INNTEKT,
                                flows.incoming[1].v, flows.incoming[1].k,
                                Note(flows.conversion[1],
                                     Some(ConvertUsdToNok(DecAbs(usd),
                                                          GroupTimestamp(group))),
                                     FALSE))>>, <<>>)
        ELSE FallbackConversion(group)

\* TransactionGrouper.convert_group_to_kryptosekken
ConvertGroupToKryptosekken(group) ==
    IF group.group_type = "swap" THEN ConvertSwapGroup(group)
    ELSE IF group.group_type = "add_liquidity" THEN ConvertAddLiquidityGroup(group)
    ELSE IF group.group_type = "remove_liquidity" THEN ConvertRemoveLiquidityGroup(group)
    ELSE IF group.group_type = "daily_rewards" THEN ConvertDailyRewardsGroup(group)
    ELSE ConvertSingleTransaction(group.transactions[1])


(***************************************************************************)
(* State of one installation: the balance state file on disk and, for the  *)
(* current run of process_file, the BalanceTracker and the yearly results. *)
(***************************************************************************)
VARIABLES
    pc,                 \* position of the current run
    runs,               \* number of runs started so far
    balance_file,       \* the balance_state.json file on disk
    balance_history,    \* BalanceTracker.balance_history
    load_error,         \* exception that left BalanceTracker.__init__, or "none"
    loaded_history,     \* the history as _load_balance_state returned it
    yearly_files,       \* year -> rows of that year's CSV file
    validation_results, \* year -> result, as _validate_yearly_csv_files returns
    running_balances,   \* year -> running_balances when the replay loop ended
    call_log,           \* years in the order process_and_validate_year was called
    saved_history,      \* balance_history at the last save_balance_state
    save_ok,            \* whether that save wrote the file
    mapper_call,        \* the last call of an OperationMapper method
    stage,              \* position of the conversion pipeline
    events,             \* the CakeTransactions loaded from the export
    groups,             \* the groups group_transactions returned
    skipped_count,      \* its count of filtered internal movements
    conversions,        \* per group: what convert_group_to_kryptosekken did
    kryptosekken_transactions, \* the canonical transactions collected in step 5
    processing_errors,  \* stats["processing_errors"]
    fatal_error         \* exception that left process_file, or "none"

ledgerVars == <<pc, runs, balance_file, balance_history, load_error,
                loaded_history, yearly_files, validation_results,
                running_balances, call_log, saved_history, save_ok>>

conversionVars == <<stage, events, groups, skipped_count, conversions,
                    kryptosekken_transactions, processing_errors, fatal_error>>

pipelineVars == <<mapper_call, conversionVars>>

vars == <<ledgerVars, pipelineVars>>

\* ---- bounds of the model ----
MaxRuns == 2

MaxTxsPerYear == 2

MaxTxsLaterRuns == 1

MaxReplayTxs == 3

FirstYear == 2022

LastYear == 2023

ValidatedYears == FirstYear..LastYear

\* ---- inputs ----
Row(type, inn, inn_valuta, ut, ut_valuta, gebyr, gebyr_valuta) ==
    Tx(0, type, inn, inn_valuta, ut, ut_valuta, gebyr, gebyr_valuta)

Withdraw15 == Row(OVERFORING_UT, None, NoCurrency, Some(Dec(15, 0 - 1)), BTC,
                  None, NoCurrency)

Withdraw10 == Row(OVERFORING_UT, None, NoCurrency, Some(Dec(10, 0 - 1)), BTC,
                  None, NoCurrency)

Deposit10 == Row(ERVERV, Some(Dec(10, 0 - 1)), BTC, None, NoCurrency,
                 None, NoCurrency)

ZeroWithdraw == Row(OVERFORING_UT, None, NoCurrency, Some(Dec(0, 0)), BTC,
                    None, NoCurrency)

TradeWithFee == Row(HANDEL, Some(Dec(15, 0 - 9)), ETH, Some(Dec(25, 0 - 1)), BTC,
                    Some(Dec(5, 0 - 1)), BTC)

RemoveLP == Row(HANDEL, Some(Dec(10, 0 - 1)), BTC, Some(Dec(10, 0 - 1)), BTC_DFI,
                None, NoCurrency)

DustIncome == Row(INNTEKT, Some(Dec(5, 0 - 9)), ETH, None, NoCurrency,
                  None, NoCurrency)

NegativeOut == Row(OVERFORING_UT, None, NoCurrency, Some(Dec(0 - 10, 0 - 1)), BTC,
                   None, NoCurrency)

\* a row that pays out and receives the same currency
SameCurrencyTrade == Row(HANDEL, Some(Dec(10, 0 - 1)), BTC, Some(Dec(25, 0 - 1)), BTC,
                         None, NoCurrency)

Withdraw35 == Row(OVERFORING_UT, None, NoCurrency, Some(Dec(35, 0 - 1)), BTC,
                  None, NoCurrency)

SmallPool == {Withdraw15, Withdraw10, RemoveLP, DustIncome}

ReplayPool == {Withdraw15, Withdraw10, Deposit10, ZeroWithdraw, TradeWithFee,
               RemoveLP, DustIncome, NegativeOut}

\* rows whose legs meet in one currency
LegOrderPool == {Deposit10, Withdraw35, ZeroWithdraw, TradeWithFee, SameCurrencyTrade,
                 RemoveLP}

\* rows are numbered from 2 (the header is row 1): enumerate(reader, start=2)
WithRows(txs) == [i \in 1..Len(txs) |-> [txs[i] EXCEPT !.row = i + 1]]

TxLists(pool, maxlen) ==
    UNION {{WithRows(l) : l \in [1..n -> pool]} : n \in 0..maxlen}

YearlyFileSets(years, pool, maxlen) ==
    UNION {[ys -> TxLists(pool, maxlen)] : ys \in SUBSET years}

Str_2_0 == <<"2", ".", "0">>

Str_5Em9 == <<"5", "E", "-", "9">>

Str_abc == <<"a", "b", "c">>

Str_2021 == <<"2", "0", "2", "1">>

\* {"2021": {"BTC": "2.0"}}
GoodState == JObject((Str_2021 :> JObject((BTC :> JString(Str_2_0)))))

\* {"2021": {"BTC": "2.0", "ETH": "5E-9"}}: a hand-edited state that holds an
\* amount below the negligible threshold
DustyState ==
    JObject((Str_2021 :> JObject((BTC :> JString(Str_2_0))
                                 @@ (ETH :> JString(Str_5Em9)))))

InitialFiles ==
    {MissingFile, UnreadableFile, NotJsonFile,
     JsonFile(JObject(EmptyMap)),
     JsonFile(GoodState),
     JsonFile(DustyState),
     JsonFile(JObject((Str_abc :> JObject((BTC :> JString(Str_2_0)))))),
     JsonFile(JObject((Str_2021 :> JObject((BTC :> JString(Str_abc)))))),
     JsonFile(JObject((Str_2021 :> JObject((BTC :> JNull))))),
     JsonFile(JObject((Str_2021 :> JArray))),
     JsonFile(JArray)}

(***************************************************************************)
(* Operations                                                              *)
(***************************************************************************)
\* sorted(yearly_files.items()): the years in ascending order
RECURSIVE SortedYears(_)
SortedYears(ys) ==
    IF ys = {} THEN <<>>
    ELSE LET y == CHOOSE y \in ys : \A z \in ys : y <= z
         IN  <<y>> \o SortedYears(ys \ {y})

\* one iteration of the loop of _validate_yearly_csv_files
ValidateOneYear(st, year, txs) ==
    LET result  == ValidateCsvFile(txs)
        balance == ProcessAndValidateYear(st.history, year, txs)
    IN  [history |-> balance.history,
         results |-> MapPut(st.results, year,
                        [valid             |-> result.valid /\ balance.report.valid,
                         transaction_count |-> result.transaction_count,
                         errors            |-> result.errors,
                         warnings          |-> result.warnings,
                         balance_tracking  |-> balance.report]),
         running |-> MapPut(st.running, year, balance.running_balances),
         log     |-> Append(st.log, year)]

RECURSIVE ValidateYears(_, _, _)
ValidateYears(st, order, files) ==
    IF order = <<>> THEN st
    ELSE ValidateYears(ValidateOneYear(st, Head(order), files[Head(order)]),
                       Tail(order), files)

\* BalanceTracker.__init__ at the start of a run
Construct ==
    /\ pc = "start"
    /\ LET loaded == LoadBalanceState(balance_file)
       IN  /\ load_error' = loaded.raised
           /\ balance_history' = loaded.history
           /\ loaded_history' = loaded.history
           /\ pc' = IF loaded.raised = "none" THEN "ready" ELSE "failed"
    /\ UNCHANGED <<runs, balance_file, yearly_files, validation_results,
                   running_balances, call_log, saved_history, save_ok>>
    /\ UNCHANGED pipelineVars

\* CakeTransactionProcessor._validate_yearly_csv_files
ValidateYearlyCsvFiles(files) ==
    /\ pc = "ready"
    /\ LET final == ValidateYears([history |-> balance_history,
                                   results |-> EmptyMap,
                                   running |-> EmptyMap,
                                   log     |-> <<>>],
                                  SortedYears(DOMAIN files), files)
       IN  /\ balance_history' = final.history
           /\ validation_results' = final.results
           /\ running_balances' = final.running
           /\ call_log' = final.log
    /\ yearly_files' = files
    /\ pc' = "validated"
    /\ UNCHANGED <<runs, balance_file, load_error, loaded_history,
                   saved_history, save_ok>>
    /\ UNCHANGED pipelineVars

\* BalanceTracker.save_balance_state; an OSError on open is logged and the
\* file is left as it was
SaveBalanceState ==
    /\ pc = "validated"
    /\ \E io_ok \in BOOLEAN :
          /\ save_ok' = io_ok
          /\ balance_file' = IF io_ok
                             THEN JsonFile(SerializeHistory(balance_history))
                             ELSE balance_file
    /\ saved_history' = balance_history
    /\ pc' = "saved"
    /\ UNCHANGED <<runs, balance_history, load_error, loaded_history,
                   yearly_files, validation_results, running_balances, call_log>>
    /\ UNCHANGED pipelineVars

\* the program is started again on the same output directory
NewRun ==
    /\ pc = "saved"
    /\ runs < MaxRuns
    /\ runs' = runs + 1
    /\ pc' = "start"
    /\ balance_history' = EmptyMap
    /\ loaded_history' = EmptyMap
    /\ load_error' = "none"
    /\ yearly_files' = EmptyMap
    /\ validation_results' = EmptyMap
    /\ running_balances' = EmptyMap
    /\ call_log' = <<>>
    /\ UNCHANGED <<balance_file, saved_history, save_ok>>
    /\ UNCHANGED pipelineVars

NoCall == [fn |-> "none", operation |-> <<>>, amount |-> None, result |-> "none"]

\* no export has been loaded
PipelineIdle ==
    /\ mapper_call = NoCall
    /\ stage = "idle"
    /\ events = <<>>
    /\ groups = <<>>
    /\ skipped_count = 0
    /\ conversions = <<>>
    /\ kryptosekken_transactions = <<>>
    /\ processing_errors = <<>>
    /\ fatal_error = "none"

LedgerInit(files) ==
    /\ PipelineIdle
    /\ pc = "start"
    /\ runs = 1
    /\ balance_file \in files
    /\ balance_history = EmptyMap
    /\ load_error = "none"
    /\ loaded_history = EmptyMap
    /\ yearly_files = EmptyMap
    /\ validation_results = EmptyMap
    /\ running_balances = EmptyMap
    /\ call_log = <<>>
    /\ saved_history = EmptyMap
    /\ save_ok = FALSE

\* ---- the multi-year run: several runs over the persisted state ----
Init == LedgerInit(InitialFiles)

ValidateRun ==
    \E files \in IF runs = 1
                 THEN YearlyFileSets(ValidatedYears, SmallPool, MaxTxsPerYear)
                 ELSE YearlyFileSets(ValidatedYears, SmallPool, MaxTxsLaterRuns) :
        ValidateYearlyCsvFiles(files)

Next == Construct \/ ValidateRun \/ SaveBalanceState \/ NewRun

Spec == Init /\ [][Next]_vars

\* ---- the replay of one year in detail ----
ReplayInit == LedgerInit({JsonFile(GoodState), JsonFile(DustyState)})

ValidateReplay ==
    \E files \in YearlyFileSets({FirstYear}, ReplayPool, MaxReplayTxs) :
        /\ DOMAIN files # {}
        /\ ValidateYearlyCsvFiles(files)

ReplayNext == Construct \/ ValidateReplay \/ SaveBalanceState

SpecReplay == ReplayInit /\ [][ReplayNext]_vars

\* ---- the replay of one year whose rows share a currency ----
ValidateLegOrder ==
    \E files \in YearlyFileSets({FirstYear}, LegOrderPool, MaxReplayTxs) :
        /\ DOMAIN files # {}
        /\ ValidateYearlyCsvFiles(files)

LegOrderNext == Construct \/ ValidateLegOrder \/ SaveBalanceState

SpecLegOrder == ReplayInit /\ [][LegOrderNext]_vars

(***************************************************************************)
(* Calls of the OperationMapper class methods                              *)
(***************************************************************************)
DFI == <<"D", "F", "I">>

\* amounts of the export rows: ordinary ones, a zero, and a negative one too
\* small for a float
EventAmounts == {Dec(0 - 15, 0 - 1), Dec(0, 0), Dec(15, 0 - 1), Dec(0 - 1, 0 - 400)}

MapperAmounts == {None} \cup {Some(ToFloat(d)) : d \in EventAmounts}

\* labels of the pair families, and labels that are close to a rule
PatternLabels ==
    {<<"Add", "liquidity", "BTC-DFI">>, <<"Remove", "liquidity", "ETH-DFI">>,
     <<"Liquidity", "mining", "reward", "BTC-DFI">>,
     <<"Add", "liquidity", "">>, <<"Liquidity", "mining", "reward", "">>}

NearMissLabels ==
    {<<"Add", "liquidity">>, <<"Remove", "liquidity">>,
     <<"Liquidity", "mining", "reward">>, <<"add", "liquidity", "BTC-DFI">>,
     <<"Added", "liquidity", "BTC-DFI">>, <<"Entry", "staking", "wallet", "">>,
     <<"Entry", "staking">>, <<"Staking", "reward", "">>,
     <<"Liquidity", "mining", "rewards", "BTC-DFI">>,
     <<"Unknown", "operation">>, <<"">>}

Labels == (DOMAIN OPERATION_MAPPING) \cup PatternLabels \cup NearMissLabels

Called(fn, operation, amount, result) ==
    /\ mapper_call' = [fn |-> fn, operation |-> operation, amount |-> amount,
                       result |-> result]
    /\ UNCHANGED <<ledgerVars, conversionVars>>

CallGetTransactionType ==
    \E operation \in Labels, amount \in MapperAmounts :
        Called("get_transaction_type", operation, amount,
               GetTransactionType(operation, amount))

CallIsIncomeOperation ==
    \E operation \in Labels, amount \in MapperAmounts :
        Called("is_income_operation", operation, amount,
               IsIncomeOperation(operation, amount))

CallIsTradeOperation ==
    \E operation \in Labels :
        Called("is_trade_operation", operation, None, IsTradeOperation(operation))

CallShouldSkipTransaction ==
    \E operation \in Labels, amount \in MapperAmounts :
        Called("should_skip_transaction", operation, amount,
               ShouldSkipTransaction(operation, amount))

CallRequiresGrouping ==
    \E operation \in Labels :
        Called("requires_grouping", operation, None, RequiresGrouping(operation))

MapperInit == LedgerInit({MissingFile})

MapperNext ==
    \/ CallGetTransactionType
    \/ CallIsIncomeOperation
    \/ CallIsTradeOperation
    \/ CallShouldSkipTransaction
    \/ CallRequiresGrouping

SpecMapper == MapperInit /\ [][MapperNext]_vars

(***************************************************************************)
(* Grouping the events of one export                                       *)
(***************************************************************************)
MaxEvents == 3

Event(t, operation, amount, coin_asset, reference, related_reference_id) ==
    CakeTransaction(DateAt(t, 0), operation, amount, coin_asset, Dec(1, 0),
                    reference, related_reference_id)

EntryIntoPool == Event(600, ENTRY_STAKING_WALLET, Dec(0 - 15, 0 - 1), DFI,
                       NoReference, NoReference)

\* three days later, so that the amount is never added to an ordinary one
EntryIntoPoolTiny == Event(3 * MinutesPerDay + 610, ENTRY_STAKING_WALLET,
                           Dec(0 - 1, 0 - 400), DFI, NoReference, NoReference)

EntryBonus == Event(620, ENTRY_STAKING_WALLET, Dec(15, 0 - 1), DFI,
                    NoReference, NoReference)

ExitFromPool == Event(630, EXIT_STAKING_WALLET, Dec(0 - 10, 0 - 1), DFI,
                      NoReference, NoReference)

\* a staking reward worth 0.01 USD
Reward(t, amount, coin_asset) ==
    CakeTransaction(DateAt(t, 0), STAKING_REWARD, amount, coin_asset, Dec(1, 0 - 2),
                    NoReference, NoReference)

DfiReward == Reward(640, Dec(5, 0 - 1), DFI)

EthRewardMonday == Reward(650, Dec(1, 0 - 3), ETH)

EthRewardTuesday == Reward(MinutesPerDay + 650, Dec(1, 0 - 3), ETH)

SwapOut == Event(700, WITHDREW_FOR_SWAP, Dec(0 - 2, 0 - 1), ETH, "S1-out", "S1")

SwapIn == Event(705, DEPOSIT, Dec(30, 0 - 1), DFI, "S1-in", "S1")

AddLeg == Event(800, <<"Add", "liquidity", "BTC-DFI">>, Dec(0 - 10, 0 - 1), BTC,
                "L1-leg", "L1")

LpReceipt == Event(801, ADDED_LIQUIDITY, Dec(20, 0 - 1), BTC_DFI, "L1", NoReference)

\* a standalone row whose own reference is the group id of the swap
DepositNamingSwap == Event(706, DEPOSIT, Dec(10, 0 - 1), DFI, "S1", NoReference)

EventPool ==
    {EntryIntoPool, EntryIntoPoolTiny, EntryBonus, ExitFromPool, DfiReward,
     EthRewardMonday, EthRewardTuesday, SwapOut, SwapIn, AddLeg, LpReceipt,
     DepositNamingSwap}

EventLists == UNION {[1..n -> EventPool] : n \in 1..MaxEvents}

\* an export of the given lists, at the given position of the pipeline
ConversionInit(first_stage, lists) ==
    /\ pc = "start"
    /\ runs = 1
    /\ balance_file = MissingFile
    /\ balance_history = EmptyMap
    /\ load_error = "none"
    /\ loaded_history = EmptyMap
    /\ yearly_files = EmptyMap
    /\ validation_results = EmptyMap
    /\ running_balances = EmptyMap
    /\ call_log = <<>>
    /\ saved_history = EmptyMap
    /\ save_ok = FALSE
    /\ mapper_call = NoCall
    /\ stage = first_stage
    /\ events \in lists
    /\ groups = <<>>
    /\ skipped_count = 0
    /\ conversions = <<>>
    /\ kryptosekken_transactions = <<>>
    /\ processing_errors = <<>>
    /\ fatal_error = "none"

\* group_transactions is handed a list of events, in any order
GrouperInit == ConversionInit("ready", EventLists)

\* step 3 of process_file: self.grouper.group_transactions(cake_transactions)
GroupTransactionsStep ==
    /\ stage = "ready"
    /\ groups' = GroupTransactions(events).groups
    /\ skipped_count' = Len(events) - Len(FilterTransactions(events))
    /\ stage' = "grouped"
    /\ UNCHANGED <<ledgerVars, mapper_call, events, conversions,
                   kryptosekken_transactions, processing_errors, fatal_error>>

\* the error step 5 records for a group whose conversion raised
ConversionError(group, exception) ==
    [error |-> "Failed to convert group", group_type |-> group.group_type,
     exception |-> exception]

\* the errors step 5 records: one for each group whose conversion raised
RECURSIVE ConversionErrors(_, _)
ConversionErrors(converted_groups, outcomes) ==
    IF converted_groups = <<>> THEN <<>>
    ELSE (IF Head(outcomes).raised = "none" THEN <<>>
          ELSE <<ConversionError(Head(converted_groups), Head(outcomes).raised)>>)
         \o ConversionErrors(Tail(converted_groups), Tail(outcomes))

\* step 5 of process_file: every group is converted; an exception is
\* recorded and the loop goes on
ConvertGroupsStep ==
    /\ stage = "grouped"
    /\ conversions' = [g \in 1..Len(groups) |-> ConvertGroupToKryptosekken(groups[g])]
    /\ kryptosekken_transactions' =
           Flatten([g \in 1..Len(groups) |-> conversions'[g].txs])
    /\ processing_errors' = processing_errors \o ConversionErrors(groups, conversions')
    /\ stage' = "converted"
    /\ UNCHANGED <<ledgerVars, mapper_call, events, groups, skipped_count, fatal_error>>

GrouperNext == GroupTransactionsStep \/ ConvertGroupsStep

SpecGrouper == GrouperInit /\ [][GrouperNext]_vars

(***************************************************************************)
(* Converting the groups of correlated events                              *)
(***************************************************************************)
CSETH == <<"c", "s", "E", "T", "H">>

SwapFee == Event(702, PAID_SWAP_FEE, Dec(0 - 1, 0 - 2), ETH, "S1-fee", "S1")

SwapOutBtc == Event(701, WITHDREW_FOR_SWAP, Dec(0 - 1, 0 - 1), BTC, "S1-btc", "S1")

\* the withdrawn ETH comes back: an intermediate asset
SwapBack == Event(703, DEPOSIT, Dec(2, 0 - 1), ETH, "S1-back", "S1")

SharesConverted == Event(704, CONVERTED_ETH_SHARES, Dec(5, 0 - 1), CSETH, "S1-conv", "S1")

AddLegDfi == Event(800, <<"Add", "liquidity", "BTC-DFI">>, Dec(0 - 300, 0 - 1), DFI,
                   "L1-dfi", "L1")

RemoveLeg == Event(900, <<"Remove", "liquidity", "BTC-DFI">>, Dec(10, 0 - 1), BTC,
                   "L2-leg", "L2")

RemoveLegDfi == Event(900, <<"Remove", "liquidity", "BTC-DFI">>, Dec(300, 0 - 1), DFI,
                      "L2-dfi", "L2")

LpDisposal == Event(901, REMOVED_LIQUIDITY, Dec(0 - 20, 0 - 1), BTC_DFI, "L2", NoReference)

\* a receipt that arrives more than MAX_TIME_DELTA after the contributions
LpReceiptLate == Event(820, ADDED_LIQUIDITY, Dec(20, 0 - 1), BTC_DFI, "L1", NoReference)

ConverterPool ==
    {SwapOut, SwapFee, SwapOutBtc, SwapBack, SwapIn, SharesConverted,
     AddLeg, AddLegDfi, LpReceipt, LpReceiptLate, RemoveLeg, RemoveLegDfi, LpDisposal}

\* the events of one provision and of one withdrawal of liquidity
ProvisionPool == {AddLeg, AddLegDfi, LpReceipt}

WithdrawalPool == {RemoveLeg, RemoveLegDfi, LpDisposal}

\* every short list of events, and the longer lists of one liquidity operation
ConverterLists ==
    UNION ({[1..n -> ConverterPool] : n \in 1..MaxEvents}
           \cup {[1..n -> ProvisionPool] : n \in 1..(MaxEvents + 1)}
           \cup {[1..n -> WithdrawalPool] : n \in 1..(MaxEvents + 1)})

ConverterInit == ConversionInit("ready", ConverterLists)

ConverterNext == GroupTransactionsStep \/ ConvertGroupsStep

SpecConverter == ConverterInit /\ [][ConverterNext]_vars

(***************************************************************************)
(* Aggregating the income events of an export                              *)
(***************************************************************************)
DfiRewardLate == Reward(1000, Dec(25, 0 - 2), DFI)

EthRewardNextMonday == Reward(DaysPerWeek * MinutesPerDay + 650, Dec(2, 0 - 3), ETH)

\* 23:20 UTC written with an offset of +01:00: the next calendar day
BtcRewardEvening ==
    CakeTransaction(DateAt(1400, 60), STAKING_REWARD, Dec(3, 0 - 4), BTC, Dec(1, 0 - 2),
                    NoReference, NoReference)

BtcRewardNight == Reward(MinutesPerDay + 10, Dec(4, 0 - 4), BTC)

DfiRewardTuesday == Reward(MinutesPerDay + 640, Dec(5, 0 - 1), DFI)

RewardPool ==
    {DfiReward, DfiRewardLate, EntryBonus, ExitFromPool, EthRewardMonday,
     EthRewardTuesday, EthRewardNextMonday, BtcRewardEvening, BtcRewardNight}

\* rewards of two days of one week and of the Monday after it
WeekPool ==
    {EthRewardMonday, EthRewardTuesday, EthRewardNextMonday, DfiReward, DfiRewardTuesday}

RewardLists ==
    UNION ({[1..n -> RewardPool] : n \in 1..MaxEvents}
           \cup {[1..n -> WeekPool] : n \in 1..(MaxEvents + 1)})

RewardsInit == ConversionInit("ready", RewardLists)

RewardsNext == GroupTransactionsStep \/ ConvertGroupsStep

SpecRewards == RewardsInit /\ [][RewardsNext]_vars

(***************************************************************************)
(* The first steps of process_file: the loaded events are put in           *)
(* chronological order when needed, written out for review, grouped and    *)
(* converted.  An exception that leaves process_file ends the run.         *)
(***************************************************************************)
\* CakeTransactionProcessor._detailed_order_check
DetailedOrderCheck(transactions) ==
    \E i \in 2..Len(transactions) : transactions[i].date.t < transactions[i - 1].date.t

\* CakeTransactionProcessor._sample_order_check
SampleOrderCheck(transactions) ==
    LET n           == Len(transactions)
        sample_size == Min(50, n \div 10)
        step        == n \div sample_size
    IN  \E i \in 1..(n - 1) :
            /\ i >= step /\ i % step = 0
            /\ transactions[i + 1].date.t < transactions[i - step + 1].date.t

\* CakeTransactionProcessor._check_if_sorting_needed
CheckIfSortingNeeded(transactions) ==
    LET n == Len(transactions)
    IN  IF n <= 1 THEN FALSE
        ELSE IF transactions[1].date.t > transactions[n].date.t THEN TRUE
        ELSE IF DateOf(transactions[1].date) = DateOf(transactions[n].date)
        THEN DetailedOrderCheck(transactions)
        ELSE IF n > 100 THEN SampleOrderCheck(transactions)
        ELSE DetailedOrderCheck(transactions)

\* step 1.5 of process_file
SortStep ==
    /\ stage = "loaded"
    /\ events' = IF CheckIfSortingNeeded(events) THEN SortByDate(events) ELSE events
    /\ stage' = "sorted"
    /\ UNCHANGED <<ledgerVars, mapper_call, groups, skipped_count, conversions,
                   kryptosekken_transactions, processing_errors, fatal_error>>

\* the mapped_type of every event, as _save_cake_transactions_json computes it
MappedTypes(transactions) ==
    [i \in 1..Len(transactions) |->
        GetTransactionType(transactions[i].operation,
                           Some(ToFloat(transactions[i].amount)))]

\* the exception _save_cake_transactions_json leaves with, if any
SaveRaises(transactions) ==
    IF ValueError \in Range(MappedTypes(transactions)) THEN ValueError ELSE "none"

\* step 2 of process_file: nothing catches what the save raises
SaveOriginalStep ==
    /\ stage = "sorted"
    /\ fatal_error' = SaveRaises(events)
    /\ stage' = IF fatal_error' = "none" THEN "ready" ELSE "aborted"
    /\ UNCHANGED <<ledgerVars, mapper_call, events, groups, skipped_count, conversions,
                   kryptosekken_transactions, processing_errors>>

UnknownOperation == Event(660, <<"Mystery", "operation">>, Dec(10, 0 - 1), DFI,
                          NoReference, NoReference)

PipelinePool ==
    {UnknownOperation, EntryIntoPool, ExitFromPool, DfiReward, SwapOut, SwapOutBtc,
     SwapIn, AddLeg, LpReceipt}

PipelineLists == UNION {[1..n -> PipelinePool] : n \in 1..MaxEvents}

PipelineInit == ConversionInit("loaded", PipelineLists)

PipelineNext ==
    \/ SortStep
    \/ SaveOriginalStep
    \/ GroupTransactionsStep
    \/ ConvertGroupsStep

SpecPipeline == PipelineInit /\ [][PipelineNext]_vars

(***************************************************************************)
(* Exports whose groups share one timestamp                                *)
(***************************************************************************)
\* 13:20 UTC, written with an offset of +01:00
RewardAtProvision ==
    CakeTransaction(DateAt(800, 60), STAKING_REWARD, Dec(3, 0 - 4), BTC, Dec(1, 0 - 2),
                    NoReference, NoReference)

SwapLegAtProvision == Event(800, WITHDREW_FOR_SWAP, Dec(0 - 2, 0 - 1), ETH, "S2-out", "S2")

WithdrawalAtProvision == Event(800, <<"Withdrawal">>, Dec(0 - 10, 0 - 1), DFI,
                               NoReference, NoReference)

\* a row whose amount is zero
DepositOfNothing == Event(800, DEPOSIT, Dec(0, 0), DFI, NoReference, NoReference)

\* a receipt exactly MAX_TIME_DELTA after the contribution
LpReceiptAtLimit == Event(810, ADDED_LIQUIDITY, Dec(20, 0 - 1), BTC_DFI, "L1", NoReference)

OrderingPool ==
    {RewardAtProvision, SwapLegAtProvision, WithdrawalAtProvision, AddLeg, LpReceipt,
     DfiReward, DepositOfNothing, LpReceiptAtLimit, LpReceiptLate}

OrderingLists == UNION {[1..n -> OrderingPool] : n \in 1..MaxEvents}

OrderingInit == ConversionInit("ready", OrderingLists)

OrderingNext == GroupTransactionsStep \/ ConvertGroupsStep

SpecOrdering == OrderingInit /\ [][OrderingNext]_vars

(***************************************************************************)
(* Properties of the multi-year balance ledger                             *)
(***************************************************************************)
Report(y) == validation_results[y].balance_tracking

\* C1: within a run process_and_validate_year is called once per yearly file,
\* in ascending year order, and the opening balances of year N are the ending
\* balances recorded for N-1 (by this run, else by the loaded state), or the
\* empty map when N-1 has no record, whatever is recorded for earlier years.
C1_AscendingYearsSeededFromPreviousYear ==
    /\ \A i, j \in 1..Len(call_log) : i < j => call_log[i] < call_log[j]
    /\ pc \in {"validated", "saved"} => Range(call_log) = DOMAIN yearly_files
    /\ \A y \in DOMAIN validation_results :
          Report(y).starting_balances =
             IF (y - 1) \in DOMAIN validation_results
             THEN Report(y - 1).ending_balances
             ELSE IF (y - 1) \in DOMAIN loaded_history
                  THEN loaded_history[y - 1]
                  ELSE EmptyMap

\* both years validated in one run on top of a loaded 2021 record
C1_Witness ==
    /\ call_log = <<FirstYear, FirstYear + 1>>
    /\ (FirstYear - 1) \in DOMAIN loaded_history
    /\ Report(FirstYear).starting_balances # EmptyMap
    /\ Report(FirstYear + 1).starting_balances # EmptyMap
    /\ Report(FirstYear + 1).starting_balances # Report(FirstYear).starting_balances

\* ---- what a reader of the ledger rules expects, computed by summation ----
\* the outflow legs of a row: the outgoing leg, then the fee leg
OutflowLegs(tx) ==
    (IF tx.ut # None /\ tx.ut_valuta # NoCurrency
     THEN <<[currency |-> tx.ut_valuta, amount |-> tx.ut[1], desc |-> "outflow"]>>
     ELSE <<>>)
    \o
    (IF tx.gebyr # None /\ tx.gebyr_valuta # NoCurrency
     THEN <<[currency |-> tx.gebyr_valuta, amount |-> tx.gebyr[1], desc |-> "fee"]>>
     ELSE <<>>)

\* incoming minus outgoing minus fee of one row in currency cur
RowNet(tx, cur) ==
    LET in  == IF tx.inn # None /\ tx.inn_valuta = cur THEN tx.inn[1] ELSE DecZero
        out == IF tx.ut # None /\ tx.ut_valuta = cur THEN tx.ut[1] ELSE DecZero
        fee == IF tx.gebyr # None /\ tx.gebyr_valuta = cur THEN tx.gebyr[1]
               ELSE DecZero
    IN  DecSub(DecSub(in, out), fee)

RECURSIVE SumNet(_, _)
SumNet(txs, cur) ==
    IF txs = <<>> THEN DecZero
    ELSE DecAdd(SumNet(Tail(txs), cur), RowNet(Head(txs), cur))

\* balance of cur after the rows txs, starting from the map opening
BalanceAfter(opening, txs, cur) == DecAdd(BalanceOf(opening, cur), SumNet(txs, cur))

\* balance of the leg's currency just before leg k of row i is applied
BalanceBeforeLeg(opening, txs, i, k) ==
    LET legs  == OutflowLegs(txs[i])
        cur   == legs[k].currency
        start == BalanceAfter(opening, SubSeq(txs, 1, i - 1), cur)
    IN  IF k = 2 /\ legs[1].currency = cur
        THEN DecSub(start, legs[1].amount) ELSE start

\* the problem entries expected for the rows txs; zero-amount legs count as
\* legs only when withZero holds
ExpectedProblems(opening, txs, withZero) ==
    Flatten([i \in 1..Len(txs) |->
        Flatten([k \in 1..Len(OutflowLegs(txs[i])) |->
            LET leg    == OutflowLegs(txs[i])[k]
                before == BalanceBeforeLeg(opening, txs, i, k)
            IN  IF (withZero \/ leg.amount.c # 0) /\ DecLt(before, leg.amount)
                THEN <<[row |-> txs[i].row, currency |-> leg.currency,
                        desc |-> leg.desc, attempted |-> leg.amount,
                        available |-> before,
                        deficit |-> DecSub(leg.amount, before)]>>
                ELSE <<>>])])

SameProblem(p, q) ==
    /\ p.row = q.row
    /\ p.currency = q.currency
    /\ p.transaction[3] = q.desc
    /\ DecEq(p.attempted, q.attempted)
    /\ DecEq(p.available, q.available)
    /\ DecEq(p.deficit, q.deficit)

ProblemsAsExpected(y, withZero) ==
    LET expected == ExpectedProblems(Report(y).starting_balances,
                                     yearly_files[y], withZero)
        actual   == Report(y).problematic_transactions
    IN  /\ Len(actual) = Len(expected)
        /\ \A i \in 1..Len(actual) : SameProblem(actual[i], expected[i])

\* every debit and credit of the year's rows is in the final running balance
AllLegsApplied(y) ==
    \A cur \in {BTC, ETH, BTC_DFI} :
        DecEq(BalanceOf(running_balances[y], cur),
              BalanceAfter(Report(y).starting_balances, yearly_files[y], cur))

IsScenario(y) ==
    /\ yearly_files[y] = WithRows(<<Withdraw15, Withdraw10>>)
    /\ Report(y).starting_balances = (BTC :> Dec(20, 0 - 1))

\* C2 (as stated): every outflow leg (outgoing or fee), a zero amount included,
\* whose amount exceeds the running balance of its currency leaves exactly one
\* problem entry (currency, attempted, available, deficit = attempted -
\* available); the debit is applied all the same and replay never stops early.
C2_EveryOutflowLegChecked ==
    \A y \in DOMAIN validation_results :
        ProblemsAsExpected(y, TRUE) /\ AllLegsApplied(y)

\* C2 (amended): the same for every outflow leg with a non-zero amount; a leg
\* whose amount is zero is not replayed and never leaves a problem entry.  With
\* opening {BTC: 2.0}, withdrawals of 1.5 and 1.0 BTC end at -0.5 BTC with
\* exactly one problem entry of deficit 0.5.
C2_NonZeroOutflowLegsChecked ==
    \A y \in DOMAIN validation_results :
        /\ ProblemsAsExpected(y, FALSE)
        /\ AllLegsApplied(y)
        /\ IsScenario(y) =>
              /\ DecEq(running_balances[y][BTC], Dec(0 - 5, 0 - 1))
              /\ Report(y).ending_balances = (BTC :> running_balances[y][BTC])
              /\ Len(Report(y).problematic_transactions) = 1
              /\ DecEq(Report(y).problematic_transactions[1].deficit, Dec(5, 0 - 1))

\* the scenario of the claim was replayed and left its problem entry
C2_Witness ==
    /\ FirstYear \in DOMAIN validation_results
    /\ IsScenario(FirstYear)
    /\ Len(Report(FirstYear).problematic_transactions) = 1

\* ---- C3 ----
SurfacedProblems(y) ==
    LET lines == Report(y).errors
        idx   == {i \in 1..Len(lines) : lines[i].kind = "problem"}
    IN  [n \in 1..Cardinality(idx) |->
            lines[CHOOSE i \in idx : Cardinality({j \in idx : j < i}) = n - 1].problem]

\* C3: the report of a year is valid iff no problem entry was recorded, and its
\* error list surfaces min(5, number of problems) entries, all of them recorded
\* problems, none of the others with a larger deficit, largest deficit first.
C3_ValidIffNoProblemTopFive ==
    \A y \in DOMAIN validation_results :
        LET problems == Report(y).problematic_transactions
            shown    == SurfacedProblems(y)
        IN  /\ Report(y).valid <=> problems = <<>>
            /\ Len(shown) = Min(5, Len(problems))
            /\ \A i \in 1..Len(shown) : shown[i] \in Range(problems)
            /\ \A i, j \in 1..Len(shown) : i # j => shown[i] # shown[j]
            /\ \A i, j \in 1..Len(shown) :
                  i < j => ~DecLt(shown[i].deficit, shown[j].deficit)
            /\ \A p \in Range(problems) \ Range(shown) :
                  \A i \in 1..Len(shown) : ~DecLt(shown[i].deficit, p.deficit)

\* a year with more than five problems of different deficits
C3_Witness ==
    /\ FirstYear \in DOMAIN validation_results
    /\ Len(Report(FirstYear).problematic_transactions) > 5
    /\ ~Report(FirstYear).valid
    /\ \E p, q \in Range(Report(FirstYear).problematic_transactions) :
          DecLt(p.deficit, q.deficit)

\* ---- C4 ----
\* |x| >= 1e-8, written out on the coefficients
AtLeastThreshold(x) ==
    IF x.e >= 0 - 8 THEN Abs(x.c) * Pow10(x.e + 8) >= 1
    ELSE Abs(x.c) >= Pow10(0 - 8 - x.e)

KeptBalances(m) == [cur \in {c \in DOMAIN m : AtLeastThreshold(m[c])} |-> m[cur]]

\* C4: the ending state recorded for a validated year N holds exactly the
\* currencies whose final running balance is at least 1e-8 in absolute value,
\* each with that balance (negative ones included); it is the report's ending
\* balance, the history entry of N, and the opening balance of year N+1.
C4_EndingStateDropsNegligible ==
    \A y \in DOMAIN validation_results :
        /\ Report(y).ending_balances = KeptBalances(running_balances[y])
        /\ balance_history[y] = KeptBalances(running_balances[y])
        /\ (y + 1) \in DOMAIN validation_results =>
              Report(y + 1).starting_balances = KeptBalances(running_balances[y])

\* a year that ended with a dropped dust balance, a kept balance of exactly the
\* threshold or a kept negative balance, and seeded the next year
C4_Witness ==
    /\ DOMAIN validation_results = {FirstYear, FirstYear + 1}
    /\ \E cur \in DOMAIN running_balances[FirstYear] :
          cur \notin DOMAIN balance_history[FirstYear]
    /\ \E cur \in DOMAIN balance_history[FirstYear] :
          balance_history[FirstYear][cur].c < 0
    /\ \E y \in DOMAIN validation_results : \E cur \in DOMAIN balance_history[y] :
          DecEq(balance_history[y][cur], NEGLIGIBLE_AMOUNT)

\* ---- C5 ----
\* C5: after save_balance_state wrote the file, a new BalanceTracker on that
\* file holds, for every year of the saved history, the same currency ->
\* amount mapping without the entries below the negligible threshold.
C5_SaveLoadRoundTrip ==
    (runs >= 2 /\ pc \in {"ready", "validated", "failed"} /\ save_ok) =>
        /\ load_error = "none"
        /\ DOMAIN loaded_history = DOMAIN saved_history
        /\ \A y \in DOMAIN saved_history :
              loaded_history[y] = KeptBalances(saved_history[y])

\* a reloaded history that had a dust entry, a negative amount and an amount
\* written in scientific notation
C5_Witness ==
    /\ runs >= 2 /\ pc = "ready" /\ save_ok
    /\ \E y \in DOMAIN saved_history : \E cur \in DOMAIN saved_history[y] :
          cur \notin DOMAIN loaded_history[y]
    /\ \E y \in DOMAIN loaded_history : \E cur \in DOMAIN loaded_history[y] :
          loaded_history[y][cur].c < 0
    /\ \E y \in DOMAIN loaded_history : \E cur \in DOMAIN loaded_history[y] :
          "E" \in Range(DecimalToStr(loaded_history[y][cur]))

\* ---- C6 ----
Malformed(file) ==
    \/ ~file.exists \/ ~file.readable \/ ~file.json
    \/ file.doc.kind # "object"
    \/ \E k \in DOMAIN file.doc.members :
          \/ ~IntFromStr(k).ok
          \/ file.doc.members[k].kind # "object"
          \/ \E cur \in DOMAIN file.doc.members[k].members :
                \/ file.doc.members[k].members[cur].kind # "string"
                \/ ~DecimalFromStr(file.doc.members[k].members[cur].s).ok

\* C6: loading the persisted state is never fatal: on a missing, unreadable or
\* malformed file (not JSON, a year key that is no integer, an amount that is
\* no decimal string, a year entry that is no mapping) the tracker starts with
\* an empty history and no exception leaves the constructor.
C6_LoadNeverFatal ==
    (runs = 1 /\ pc # "start" /\ Malformed(balance_file) /\ pc # "saved") =>
        /\ load_error = "none"
        /\ loaded_history = EmptyMap

\* ---- C7 ----
\* C7: in the balance validation of a year, deficits in LP-token currencies
\* (code containing a hyphen) are warnings and leave the year valid, while a
\* deficit in a regular currency always makes the year invalid.
C7_LPTokenDeficitIsWarning ==
    \A y \in DOMAIN validation_results :
        LET problems == Report(y).problematic_transactions
        IN  /\ (\E p \in Range(problems) : ~IsLPToken(p.currency)) =>
                  ~validation_results[y].valid
            /\ (validation_results[y].errors = <<>>
                /\ \A p \in Range(problems) : IsLPToken(p.currency)) =>
                  (Report(y).valid /\ validation_results[y].valid)

(***************************************************************************)
(* Properties of the operation mapper and of the filter of the grouper     *)
(***************************************************************************)
\* the label is the given words followed by a space and anything
BeginsWithFamily(label, words) ==
    /\ Len(label) >= Len(words) + 1
    /\ \A i \in 1..Len(words) : label[i] = words[i]

InAddRemoveFamily(label) ==
    \/ BeginsWithFamily(label, <<"Add", "liquidity">>)
    \/ BeginsWithFamily(label, <<"Remove", "liquidity">>)

InMiningRewardFamily(label) ==
    BeginsWithFamily(label, <<"Liquidity", "mining", "reward">>)

InStaticTable(label) == label \in DOMAIN OPERATION_MAPPING

ClassifyCalled == mapper_call.fn = "get_transaction_type"

\* ---- C8 ----
\* C8: get_transaction_type(label, amount) fails with the unrecognized-operation
\* error iff the label is neither a key of the static table nor begins with
\* 'Add liquidity ', 'Remove liquidity ' or 'Liquidity mining reward '; a label
\* of the static table gets the category of its table entry whatever prefix
\* it has (the sign rule of 'Entry staking wallet' aside), a label outside
\* the table that begins with an add/remove-liquidity prefix is a
\* disposal-trade and one that begins with the mining-reward prefix is
\* income; every recognized label yields one category.
C8_UnrecognizedIffNoRule ==
    ClassifyCalled =>
        LET label  == mapper_call.operation
            result == mapper_call.result
        IN  /\ (result = ValueError) <=>
                   /\ ~InStaticTable(label)
                   /\ ~InAddRemoveFamily(label)
                   /\ ~InMiningRewardFamily(label)
            /\ result # ValueError => result \in VALID_TRANSACTION_TYPES
            /\ InStaticTable(label) /\ label # ENTRY_STAKING_WALLET
                  => result = OPERATION_MAPPING[label]
            /\ ~InStaticTable(label) /\ InAddRemoveFamily(label) => result = HANDEL
            /\ ~InStaticTable(label) /\ InMiningRewardFamily(label) => result = INNTEKT

\* 'Add liquidity' without a pair (and without the trailing space) has been
\* classified and was refused
C8_Witness ==
    /\ ClassifyCalled
    /\ mapper_call.operation = <<"Add", "liquidity">>
    /\ mapper_call.result = ValueError

IsNegativeEntry(event) ==
    event.operation = ENTRY_STAKING_WALLET /\ event.amount.c < 0

\* C10: an event labelled 'Entry staking wallet' with a negative amount is
\* dropped by the filter of group_transactions, so it is a member of no
\* output group and is counted as skipped; every other event, an 'Exit
\* staking wallet' event of any amount included, is a member of some group.
C10_NegativeEntryDropped ==
    stage = "grouped" =>
        /\ \A i \in 1..Len(events) :
              ((i - 1) \in MembersOf(groups)) <=> ~IsNegativeEntry(events[i])
        /\ skipped_count =
              Cardinality({i \in 1..Len(events) : IsNegativeEntry(events[i])})

(***************************************************************************)
(* Properties of the group converter                                       *)
(***************************************************************************)
\* the members of a group that satisfy a condition, and sums over them
AmountsWhere(txs, Keep(_)) ==
    LET kept == SelectSeq(txs, Keep)
    IN  [i \in 1..Len(kept) |-> DecAbs(kept[i].amount)]

IsFeeLeg(tx) == tx.operation = PAID_SWAP_FEE

ReceivedIn(txs, currency) ==
    DecSum(AmountsWhere(txs, LAMBDA tx : /\ ~IsFeeLeg(tx) /\ tx.amount.c > 0
                                         /\ tx.coin_asset = currency))

SentIn(txs, currency) ==
    DecSum(AmountsWhere(txs, LAMBDA tx : /\ ~IsFeeLeg(tx) /\ tx.amount.c < 0
                                         /\ tx.coin_asset = currency))

FeesIn(txs, currency) ==
    DecSum(AmountsWhere(txs, LAMBDA tx : IsFeeLeg(tx) /\ tx.coin_asset = currency))

CurrenciesOf(txs) == {txs[i].coin_asset : i \in 1..Len(txs)}

\* a currency that is received and given back in the same amount
CancelsOut(txs, currency) ==
    /\ \E i \in 1..Len(txs) : /\ ~IsFeeLeg(txs[i]) /\ txs[i].amount.c > 0
                              /\ txs[i].coin_asset = currency
    /\ \E i \in 1..Len(txs) : /\ IsFeeLeg(txs[i]) \/ txs[i].amount.c < 0
                              /\ txs[i].coin_asset = currency
    /\ DecLt(DecAbs(DecSub(ReceivedIn(txs, currency),
                           DecAdd(SentIn(txs, currency), FeesIn(txs, currency)))),
             Dec(1, 0 - 9))

NetInCurrencies(txs) ==
    {c \in CurrenciesOf(txs) :
        /\ ~CancelsOut(txs, c)
        /\ \E i \in 1..Len(txs) : /\ ~IsFeeLeg(txs[i]) /\ txs[i].amount.c > 0
                                  /\ txs[i].coin_asset = c}

NetOutCurrencies(txs) ==
    {c \in CurrenciesOf(txs) :
        /\ ~CancelsOut(txs, c)
        /\ \E i \in 1..Len(txs) : /\ ~IsFeeLeg(txs[i]) /\ txs[i].amount.c < 0
                                  /\ txs[i].coin_asset = c}

\* the fee legs that are left, in member order
NetFeeLegs(txs) ==
    SelectSeq(txs, LAMBDA tx : IsFeeLeg(tx) /\ ~CancelsOut(txs, tx.coin_asset))

OneInOneOut(txs) ==
    /\ Cardinality(NetInCurrencies(txs)) = 1
    /\ Cardinality(NetOutCurrencies(txs)) = 1
    /\ NetInCurrencies(txs) \cap NetOutCurrencies(txs) = {}

SwapGroups == {g \in 1..Len(groups) : groups[g].group_type = "swap"}

\* ---- C11 ----
\* C11: a swap group whose net incoming currency and net outgoing currency
\* are disjoint singletons is converted to exactly one disposal-trade: the
\* incoming side is the sum received in the sole net-in currency, the
\* outgoing side the sum sent in the net-out currency, and the fee slot holds
\* the currency and the summed amount of the first fee left after netting,
\* or is empty when there is none.
C11_SwapTradeFromNetFlows ==
    stage = "converted" =>
        \A g \in SwapGroups :
            LET txs == groups[g].transactions
            IN  OneInOneOut(txs) =>
                    LET in_currency  == CHOOSE c \in NetInCurrencies(txs) : TRUE
                        out_currency == CHOOSE c \in NetOutCurrencies(txs) : TRUE
                        fees         == NetFeeLegs(txs)
                        out          == conversions[g]
                    IN  /\ out.raised = "none"
                        /\ Len(out.txs) = 1
                        /\ out.txs[1].type = HANDEL
                        /\ out.txs[1].inn_valuta = in_currency
                        /\ DecEq(out.txs[1].inn[1], ReceivedIn(txs, in_currency))
                        /\ out.txs[1].ut_valuta = out_currency
                        /\ DecEq(out.txs[1].ut[1], SentIn(txs, out_currency))
                        /\ IF fees = <<>>
                           THEN /\ out.txs[1].gebyr = None
                                /\ out.txs[1].gebyr_valuta = NoCurrency
                           ELSE /\ out.txs[1].gebyr_valuta = fees[1].coin_asset
                                /\ DecEq(out.txs[1].gebyr[1],
                                         FeesIn(txs, fees[1].coin_asset))

\* withdraw 0.2 ETH, pay a fee of 0.01 ETH, deposit 3.0 DFI: one trade
C11_Witness ==
    /\ stage = "converted"
    /\ \E g \in SwapGroups :
          /\ Len(groups[g].transactions) = 3
          /\ OneInOneOut(groups[g].transactions)
          /\ NetFeeLegs(groups[g].transactions) # <<>>
          /\ Len(conversions[g].txs) = 1
          /\ conversions[g].txs[1].inn = Some(Dec(30, 0 - 1))
          /\ conversions[g].txs[1].ut = Some(Dec(2, 0 - 1))
          /\ conversions[g].txs[1].gebyr = Some(Dec(1, 0 - 2))

RewardGroups == {g \in 1..Len(groups) : groups[g].group_type = "daily_rewards"}

EarliestMember(txs) ==
    CHOOSE i \in 1..Len(txs) : \A j \in 1..Len(txs) : txs[i].date.t <= txs[j].date.t

GroupsOfType(type) == {g \in 1..Len(groups) : groups[g].group_type = type}

\* positions of the members of a group with a given label, or whose label
\* begins with given words
MembersLabelled(txs, label) == {i \in 1..Len(txs) : txs[i].operation = label}

MembersBeginning(txs, words) ==
    {i \in 1..Len(txs) : StartsWithBare(txs[i].operation, words)}

FirstOf(S) == CHOOSE i \in S : \A j \in S : i <= j

SecondOf(S) == FirstOf(S \ {FirstOf(S)})

\* a trade whose fee slot holds the second leg, if there is one
FeeSlotHoldsSecond(tx, txs, legs) ==
    IF Cardinality(legs) > 1
    THEN /\ tx.gebyr = Some(DecAbs(txs[SecondOf(legs)].amount))
         /\ tx.gebyr_valuta = txs[SecondOf(legs)].coin_asset
    ELSE tx.gebyr = None /\ tx.gebyr_valuta = NoCurrency

\* ---- C13 ----
\* C13: an add-liquidity group with the receipt ('Added liquidity') and at
\* least one contribution leg converts to exactly one Handel with incoming =
\* the LP-token amount and currency, outgoing = the first contributed asset
\* and fee slot = the second contributed asset, if any; with contributions
\* and no receipt nothing is emitted; with the receipt alone exactly one
\* transfer-in of the LP token, annotated as incomplete, is emitted;
\* otherwise the group is converted by the fallback.
C13_AddLiquidityByCompleteness ==
    stage = "converted" =>
        \A g \in GroupsOfType("add_liquidity") :
            LET txs           == groups[g].transactions
                receipts      == MembersLabelled(txs, ADDED_LIQUIDITY)
                contributions == MembersBeginning(txs, ADD_LIQUIDITY_PREFIX)
                out           == conversions[g]
            IN  /\ (receipts # {} /\ contributions # {}) =>
                        /\ out.raised = "none" /\ Len(out.txs) = 1
                        /\ out.txs[1].type = HANDEL
                        /\ out.txs[1].inn = Some(DecAbs(txs[FirstOf(receipts)].amount))
                        /\ out.txs[1].inn_valuta = txs[FirstOf(receipts)].coin_asset
                        /\ out.txs[1].ut = Some(DecAbs(txs[FirstOf(contributions)].amount))
                        /\ out.txs[1].ut_valuta = txs[FirstOf(contributions)].coin_asset
                        /\ FeeSlotHoldsSecond(out.txs[1], txs, contributions)
                /\ (receipts = {} /\ contributions # {}) =>
                        out.raised = "none" /\ out.txs = <<>>
                /\ (receipts # {} /\ contributions = {}) =>
                        /\ out.raised = "none" /\ Len(out.txs) = 1
                        /\ out.txs[1].type = OVERFORING_INN
                        /\ out.txs[1].inn = Some(DecAbs(txs[FirstOf(receipts)].amount))
                        /\ out.txs[1].inn_valuta = txs[FirstOf(receipts)].coin_asset
                        /\ out.txs[1].ut = None /\ out.txs[1].ut_valuta = NoCurrency
                        /\ out.txs[1].gebyr = None /\ out.txs[1].gebyr_valuta = NoCurrency
                        /\ out.txs[1].notat.incomplete
                /\ (receipts = {} /\ contributions = {}) =>
                        out = FallbackConversion(groups[g])

\* 1.0 BTC and 30.0 DFI provided, 2.0 BTC-DFI received: one Handel with the
\* DFI leg in the fee slot
C13_Witness ==
    /\ stage = "converted"
    /\ \E g \in GroupsOfType("add_liquidity") :
          /\ Len(groups[g].transactions) = 3
          /\ Cardinality(MembersBeginning(groups[g].transactions, ADD_LIQUIDITY_PREFIX)) = 2
          /\ Len(conversions[g].txs) = 1
          /\ conversions[g].txs[1].type = HANDEL
          /\ conversions[g].txs[1].inn_valuta = BTC_DFI
          /\ conversions[g].txs[1].gebyr # None
          /\ conversions[g].txs[1].gebyr_valuta # conversions[g].txs[1].ut_valuta

\* ---- C14 ----
\* C14: a remove-liquidity group with the LP-token disposal ('Removed
\* liquidity') and one or two received-asset legs converts to exactly one
\* Handel with incoming = the first received asset, outgoing = the absolute
\* LP-token amount in the LP currency and fee slot = the second received
\* asset, if any; every other remove-liquidity group is converted by the
\* fallback.
C14_RemoveLiquidityTrade ==
    stage = "converted" =>
        \A g \in GroupsOfType("remove_liquidity") :
            LET txs       == groups[g].transactions
                disposals == MembersLabelled(txs, REMOVED_LIQUIDITY)
                legs      == MembersBeginning(txs, REMOVE_LIQUIDITY_PREFIX)
                out       == conversions[g]
            IN  IF disposals # {} /\ Cardinality(legs) \in {1, 2}
                THEN /\ out.raised = "none" /\ Len(out.txs) = 1
                     /\ out.txs[1].type = HANDEL
                     /\ out.txs[1].inn = Some(DecAbs(txs[FirstOf(legs)].amount))
                     /\ out.txs[1].inn_valuta = txs[FirstOf(legs)].coin_asset
                     /\ out.txs[1].ut = Some(DecAbs(txs[FirstOf(disposals)].amount))
                     /\ out.txs[1].ut_valuta = txs[FirstOf(disposals)].coin_asset
                     /\ FeeSlotHoldsSecond(out.txs[1], txs, legs)
                ELSE out = FallbackConversion(groups[g])

\* the category the classifier gives an event
CategoryOf(tx) == GetTransactionType(tx.operation, Some(ToFloat(tx.amount)))

IsIncomingOnly(k, tx) ==
    /\ k.inn = Some(DecAbs(tx.amount)) /\ k.inn_valuta = tx.coin_asset
    /\ k.ut = None /\ k.ut_valuta = NoCurrency
    /\ k.gebyr = None /\ k.gebyr_valuta = NoCurrency

IsOutgoingOnly(k, tx) ==
    /\ k.ut = Some(DecAbs(tx.amount)) /\ k.ut_valuta = tx.coin_asset
    /\ k.inn = None /\ k.inn_valuta = NoCurrency
    /\ k.gebyr = None /\ k.gebyr_valuta = NoCurrency

\* the canonical transaction the singleton rule prescribes for an event
IsSingletonConversion(k, tx) ==
    LET category == CategoryOf(tx)
    IN  CASE category = INNTEKT ->
                 k.type = INNTEKT /\ IsIncomingOnly(k, tx) /\ k.notat.nok # None
          [] category = OVERFORING_INN ->
                 k.type = OVERFORING_INN /\ IsIncomingOnly(k, tx)
          [] category \in {OVERFORING_UT, FORVALTNINGSKOSTNAD} ->
                 k.type = category /\ IsOutgoingOnly(k, tx)
          [] category = ERVERV ->
                 k.type = ERVERV /\ IsIncomingOnly(k, tx)
          [] OTHER ->
                 /\ k.notat.incomplete
                 /\ IF tx.amount.c < 0
                    THEN k.type = OVERFORING_UT /\ IsOutgoingOnly(k, tx)
                    ELSE k.type = OVERFORING_INN /\ IsIncomingOnly(k, tx)

\* ---- C15 ----
\* C15: converting a singleton event emits exactly one canonical
\* transaction determined by the event's category: income gives incoming
\* only, with a fiat annotation; transfer-in and transfer-out give the
\* matching side only; cost gives outgoing only; acquisition gives incoming
\* only; any other event is emitted as a transfer whose direction is the
\* sign of the amount, annotated as incomplete.  The emitted amount is the
\* absolute value of the event amount.
C15_SingletonByCategory ==
    stage = "converted" =>
        \A g \in GroupsOfType("single") :
            LET tx == groups[g].transactions[1]
            IN  CategoryOf(tx) # ValueError =>
                    /\ conversions[g].raised = "none"
                    /\ Len(conversions[g].txs) = 1
                    /\ IsSingletonConversion(conversions[g].txs[1], tx)

\* the groups whose conversion went through the fallback: the ones for
\* which the warning was printed
FallenBack == {g \in 1..Len(groups) : conversions[g].warnings # <<>>}

\* ---- C16 ----
\* C16: the fallback conversion of a group emits exactly one canonical
\* transaction per member event, in member order, each the singleton
\* conversion of that member, and prints one warning that identifies the
\* group by its timestamp.
C16_FallbackOnePerMember ==
    stage = "converted" =>
        \A g \in FallenBack :
            LET txs == groups[g].transactions
                out == conversions[g]
            IN  /\ out.raised = "none"
                /\ Len(out.txs) = Len(txs)
                /\ \A i \in 1..Len(txs) :
                       out.txs[i] = ConvertSingleTransaction(txs[i]).txs[1]
                /\ Len(out.warnings) = 1
                /\ out.warnings[1].timestamp = GroupTimestamp(groups[g])

\* a withdrawal of liquidity whose disposal event is missing: the two
\* received legs are emitted one by one, in member order
C16_Witness ==
    /\ stage = "converted"
    /\ \E g \in FallenBack :
          /\ groups[g].group_type = "remove_liquidity"
          /\ Len(groups[g].transactions) = 2
          /\ groups[g].transactions[1].coin_asset # groups[g].transactions[2].coin_asset
          /\ Len(conversions[g].txs) = 2
          /\ conversions[g].txs[1].inn_valuta = groups[g].transactions[1].coin_asset
          /\ conversions[g].txs[2].inn_valuta = groups[g].transactions[2].coin_asset

\* positions of the events of the export whose label has no category
Unclassifiable(transactions) ==
    {i \in 1..Len(transactions) : CategoryOf(transactions[i]) = ValueError}

Classifiable(transactions) ==
    SelectSeq(transactions, LAMBDA tx : CategoryOf(tx) # ValueError)

\* the canonical transactions of an export, with no regard to the order
\* of the groups
EmittedFor(transactions) ==
    LET grouped == GroupTransactions(transactions).groups
    IN  {ConvertGroupToKryptosekken(grouped[g]).txs : g \in 1..Len(grouped)}

\* ---- C17 ----
\* C17: an event whose operation label cannot be classified aborts the
\* processing of that event only: the run goes on to completion, the event
\* is recorded as a processing error, and the other events are grouped and
\* converted as if the failing event were absent.
C17_UnclassifiableAbortsEventOnly ==
    /\ stage # "aborted"
    /\ fatal_error = "none"
    /\ stage = "converted" =>
           /\ Len(processing_errors) >= Cardinality(Unclassifiable(events))
           /\ {conversions[g].txs : g \in 1..Len(groups)} \ {<<>>}
                  = EmittedFor(Classifiable(events)) \ {<<>>}

\* a canonical transaction has a side in the currency of an event
HasSideIn(k, currency) ==
    \/ k.inn # None /\ k.inn_valuta = currency
    \/ k.ut # None /\ k.ut_valuta = currency
    \/ k.gebyr # None /\ k.gebyr_valuta = currency

\* the event is reflected in a canonical transaction emitted for its group
Reflected(g, tx) ==
    \E k \in 1..Len(conversions[g].txs) : HasSideIn(conversions[g].txs[k], tx.coin_asset)

\* the conversion of the group left a warning or a recorded processing error
Diagnosed(g) == conversions[g].warnings # <<>> \/ conversions[g].raised # "none"

\* ---- C18 ----
\* C18: the run always completes and nothing is dropped silently: every
\* input event that is not reflected in an emitted canonical transaction
\* has a diagnostic entry, which is the skip count for a filtered event and
\* a warning or a recorded processing error for a grouped one.
C18_NothingSilentlyDropped ==
    /\ stage # "aborted"
    /\ stage = "converted" =>
           /\ skipped_count = Len(events) - Cardinality(MembersOf(groups))
           /\ \A g \in 1..Len(groups) :
                  \A i \in 1..Len(groups[g].transactions) :
                      Reflected(g, groups[g].transactions[i]) \/ Diagnosed(g)

\* the priority the ordering rule gives a group: income first, then swaps,
\* then liquidity events, then everything else
RulePriority(group) ==
    IF \E i \in 1..Len(group.transactions) : CategoryOf(group.transactions[i]) = INNTEKT
    THEN 1
    ELSE IF group.group_type = "swap" THEN 2
    ELSE IF group.group_type \in {"add_liquidity", "remove_liquidity"} THEN 3
    ELSE 4

EarliestTime(group) ==
    CHOOSE t \in {group.transactions[i].date.t : i \in 1..Len(group.transactions)} :
        \A i \in 1..Len(group.transactions) : t <= group.transactions[i].date.t

RuleKey(group) ==
    <<EarliestTime(group), RulePriority(group), group.transactions[1].original_index>>

\* ---- C19 ----
\* C19: group_transactions returns its groups ordered by group timestamp in
\* UTC; among groups of equal timestamp the groups containing income come
\* first, then swap groups, then add- and remove-liquidity groups, then
\* everything else; remaining ties are broken by the original input
\* position of the group's first member.
C19_GroupsInRuleOrder ==
    stage \in {"grouped", "converted"} =>
        \A a, b \in 1..Len(groups) :
            a < b => LexLess(RuleKey(groups[a]), RuleKey(groups[b]))

C21_OneSidePresent ==
    stage = "converted" =>
        \A k \in 1..Len(kryptosekken_transactions) :
            \/ kryptosekken_transactions[k].inn # None
            \/ kryptosekken_transactions[k].ut # None

\* ---- C22 ----
\* the replay of year y left a problem entry for the leg desc of row i
DeficitRecorded(y, i, desc) ==
    \E n \in 1..Len(Report(y).problematic_transactions) :
        /\ Report(y).problematic_transactions[n].row = yearly_files[y][i].row
        /\ Report(y).problematic_transactions[n].transaction[3] = desc

\* every outflow leg of year y (zero amounts too when withZero holds) has a
\* problem entry iff the opening balance plus the credits minus the debits
\* of the legs before it, the row's own outgoing leg included for the fee
\* leg and the row's own incoming leg never, is less than its amount
DeficitIffShortBefore(y, withZero) ==
    \A i \in 1..Len(yearly_files[y]) :
        \A k \in 1..Len(OutflowLegs(yearly_files[y][i])) :
            LET leg == OutflowLegs(yearly_files[y][i])[k]
            IN  (withZero \/ leg.amount.c # 0) =>
                    (DeficitRecorded(y, i, leg.desc)
                     <=> DecLt(BalanceBeforeLeg(Report(y).starting_balances,
                                                yearly_files[y], i, k),
                               leg.amount))

IsPureDebit(tx, cur) ==
    /\ tx.ut # None /\ tx.ut_valuta = cur
    /\ tx.inn = None /\ tx.gebyr = None

IsPureCredit(tx, cur) ==
    /\ tx.inn # None /\ tx.inn_valuta = cur
    /\ tx.ut = None /\ tx.gebyr = None

\* year y holds two rows of currency cur, the debit at position d and the
\* credit at position c
IsDebitAndCredit(y, cur, d, c) ==
    /\ Len(yearly_files[y]) = 2
    /\ {d, c} = {1, 2}
    /\ IsPureDebit(yearly_files[y][d], cur)
    /\ IsPureCredit(yearly_files[y][c], cur)

\* the problem entries are in replay order: by row, the outgoing leg of a
\* row before its fee leg
InReplayOrder(y) ==
    LET ps == Report(y).problematic_transactions
    IN  \A m, n \in 1..Len(ps) :
            m < n => \/ ps[m].row < ps[n].row
                     \/ /\ ps[m].row = ps[n].row
                        /\ ps[m].transaction[3] = "outflow"
                        /\ ps[n].transaction[3] = "fee"

\* C22 (as stated): rows are replayed in list order and, within a row, the
\* outgoing leg, then the fee leg, then the incoming leg; a deficit is
\* recorded for an outflow iff opening balance plus earlier credits minus
\* earlier debits is less than its amount; of two rows in one currency, a
\* debit and a credit, a deficit appears iff the debit placed before the
\* credit exceeds the opening balance.
C22_DeficitIffEarlierLegsFallShort ==
    \A y \in DOMAIN validation_results :
        /\ InReplayOrder(y)
        /\ DeficitIffShortBefore(y, TRUE)
        /\ \A cur \in {BTC, ETH, BTC_DFI} : \A d, c \in 1..2 :
              IsDebitAndCredit(y, cur, d, c) =>
                  (Report(y).problematic_transactions # <<>>
                   <=> /\ d < c
                       /\ DecLt(BalanceOf(Report(y).starting_balances, cur),
                                yearly_files[y][d].ut[1]))

\* C22 (amended): the same for outflows of non-zero amount (a zero-amount
\* leg is not replayed); of two rows in one currency, a debit and a credit,
\* a deficit appears iff the debit comes first and exceeds the opening
\* balance, or comes second and exceeds the opening balance plus the credit.
C22_NonZeroDeficitIffEarlierLegsFallShort ==
    \A y \in DOMAIN validation_results :
        /\ InReplayOrder(y)
        /\ DeficitIffShortBefore(y, FALSE)
        /\ \A cur \in {BTC, ETH, BTC_DFI} : \A d, c \in 1..2 :
              (/\ IsDebitAndCredit(y, cur, d, c)
               /\ yearly_files[y][d].ut[1].c # 0) =>
                  (Report(y).problematic_transactions # <<>>
                   <=> DecLt(IF d < c
                             THEN BalanceOf(Report(y).starting_balances, cur)
                             ELSE DecAdd(BalanceOf(Report(y).starting_balances, cur),
                                         yearly_files[y][c].inn[1]),
                             yearly_files[y][d].ut[1]))

\* a row paying out 2.5 BTC and receiving 1.0 BTC was replayed on an opening
\* balance of 2.0 BTC: the payout came before the receipt and left a deficit
C22_Witness ==
    /\ FirstYear \in DOMAIN validation_results
    /\ yearly_files[FirstYear] = WithRows(<<SameCurrencyTrade>>)
    /\ DecEq(BalanceOf(Report(FirstYear).starting_balances, BTC), Dec(20, 0 - 1))
    /\ Len(Report(FirstYear).problematic_transactions) = 1
    /\ DecEq(Report(FirstYear).problematic_transactions[1].deficit, Dec(5, 0 - 1))

\* ---- C23 ----
\* the events that pass the filter, with their original positions
Kept == FilterTransactions(events)

CorrelatedTypes == {"swap", "add_liquidity", "remove_liquidity"}

\* the event carries a group id and its label requires grouping
CarriesGroupId(tx) ==
    tx.related_reference_id # NoReference /\ RequiresGrouping(tx.operation)

GroupIds == {Kept[i].related_reference_id : i \in {j \in 1..Len(Kept) : CarriesGroupId(Kept[j])}}

\* the group id under which an event is correlated: the one it carries, or,
\* for a standalone event (of any label when anyLabel holds, else a liquidity
\* result), its own reference when that is the group id of other events
ProvisionalKey(tx, anyLabel) ==
    IF CarriesGroupId(tx) THEN tx.related_reference_id
    ELSE IF /\ tx.reference # NoReference
            /\ tx.reference \in GroupIds
            /\ anyLabel \/ tx.operation \in {ADDED_LIQUIDITY, REMOVED_LIQUIDITY}
         THEN tx.reference
         ELSE NoReference

\* the output group that holds the event of the given original position
GroupOf(original_index) ==
    CHOOSE g \in 1..Len(groups) :
        \E i \in 1..Len(groups[g].transactions) :
            groups[g].transactions[i].original_index = original_index

\* the events are correlated by ProvisionalKey: a correlated group is keyed by
\* the key of each of its members, every event with a key is in a correlated
\* group, and events of one key that lie within MAX_TIME_DELTA of each other
\* share a group
CorrelatedByKey(anyLabel) ==
    /\ \A g \in 1..Len(groups) :
          groups[g].group_type \in CorrelatedTypes =>
              \A i \in 1..Len(groups[g].transactions) :
                  ProvisionalKey(groups[g].transactions[i], anyLabel)
                      = groups[g].reference_id
    /\ \A i \in 1..Len(Kept) :
          ProvisionalKey(Kept[i], anyLabel) # NoReference =>
              /\ groups[GroupOf(Kept[i].original_index)].group_type \in CorrelatedTypes
              /\ groups[GroupOf(Kept[i].original_index)].reference_id
                     = ProvisionalKey(Kept[i], anyLabel)
    /\ \A i, j \in 1..Len(Kept) :
          (/\ ProvisionalKey(Kept[i], anyLabel) # NoReference
           /\ ProvisionalKey(Kept[i], anyLabel) = ProvisionalKey(Kept[j], anyLabel)
           /\ Abs(Kept[i].date.t - Kept[j].date.t) <= MAX_TIME_DELTA) =>
              GroupOf(Kept[i].original_index) = GroupOf(Kept[j].original_index)

\* C23 (as stated): non-skipped events carrying the same group id (with a
\* label that requires grouping) share a provisional group keyed by that id;
\* a standalone event whose own reference equals some group id is appended to
\* that group; an own reference never groups events that merely share it.
C23_CorrelatedByGroupId ==
    stage = "grouped" => CorrelatedByKey(TRUE)

\* C23 (amended): the same, where the standalone events appended by their own
\* reference are those labelled 'Added liquidity' or 'Removed liquidity'.
C23_CorrelatedByGroupIdOrLiquidityResult ==
    stage = "grouped" => CorrelatedByKey(FALSE)

\* two contributions carrying the group id L1 and the liquidity receipt whose
\* own reference is L1 ended up in one group keyed L1
C23_Witness ==
    /\ stage = "grouped"
    /\ \E g \in 1..Len(groups) :
          /\ groups[g].reference_id = "L1"
          /\ Len(groups[g].transactions) = 3
          /\ Len(SelectSeq(groups[g].transactions, CarriesGroupId)) = 2
          /\ \E i \in 1..3 : groups[g].transactions[i].operation = ADDED_LIQUIDITY

\* ---- C24 ----
\* the timestamps of the provisional group keyed key
TimesOf(key) ==
    {Kept[k].date.t : k \in {m \in 1..Len(Kept) : ProvisionalKey(Kept[m], FALSE) = key}}

\* two neighbouring timestamps of the provisional group, both within [from, to],
\* are more than MAX_TIME_DELTA apart
GapBetween(key, from, to) ==
    \E u, v \in TimesOf(key) :
        /\ from <= u /\ u < v /\ v <= to
        /\ v - u > MAX_TIME_DELTA
        /\ \A w \in TimesOf(key) : ~(u < w /\ w < v)

IsStandalone(tx) == ProvisionalKey(tx, FALSE) = NoReference

\* a standalone income event
IsStandaloneIncome(tx) == IsStandalone(tx) /\ CategoryOf(tx) = INNTEKT

SameDayAndCurrency(a, b) ==
    DateOf(a.date) = DateOf(b.date) /\ a.coin_asset = b.coin_asset

\* another standalone income event of the same calendar day and currency
HasCompanion(i) ==
    \E j \in 1..Len(Kept) :
        /\ j # i
        /\ IsStandaloneIncome(Kept[j])
        /\ SameDayAndCurrency(Kept[i], Kept[j])

InDailyGroup(i) == IsStandaloneIncome(Kept[i]) /\ HasCompanion(i)

WeekOf(tx) == MondayOf(DateOf(tx.date))

\* C26: all ETH daily reward groups of one Monday-anchored week are merged
\* into exactly one weekly group that supersedes them, so no ETH daily group
\* of that week remains; the daily groups of every other currency are left
\* unchanged.
C26_EthDailyGroupsMergedByWeek ==
    stage = "grouped" =>
        \A i, j \in 1..Len(Kept) :
            (InDailyGroup(i) /\ InDailyGroup(j)) =>
                /\ groups[GroupOf(Kept[i].original_index)].group_type = "daily_rewards"
                /\ GroupOf(Kept[i].original_index) = GroupOf(Kept[j].original_index)
                      <=> /\ Kept[i].coin_asset = Kept[j].coin_asset
                          /\ IF Kept[i].coin_asset = ETH
                             THEN WeekOf(Kept[i]) = WeekOf(Kept[j])
                             ELSE DateOf(Kept[i].date) = DateOf(Kept[j].date)

\* the ETH daily groups of Monday and Tuesday became one group of four
C26_Witness ==
    /\ stage = "grouped"
    /\ Len(groups) = 1
    /\ Len(groups[1].transactions) = 4
    /\ groups[1].group_type = "daily_rewards"
    /\ groups[1].transactions[1].coin_asset = ETH
    /\ DateOf(groups[1].transactions[1].date) # DateOf(groups[1].transactions[4].date)

\* ---- C27 ----
\* a member's label begins with the word Converted
HasConvertedLabel(txs) ==
    \E i \in 1..Len(txs) : Len(txs[i].operation) >= 1 /\ txs[i].operation[1] = "Converted"

\* one net-incoming currency, no net-outgoing currency, a Converted label
IsInternalConversion(txs) ==
    /\ Cardinality(NetInCurrencies(txs)) = 1
    /\ NetOutCurrencies(txs) = {}
    /\ HasConvertedLabel(txs)

\* one net-incoming currency and at least one net-outgoing currency
IsTradeShape(txs) ==
    /\ Cardinality(NetInCurrencies(txs)) = 1
    /\ NetOutCurrencies(txs) # {}

PlacesOf(i) ==
    {p \in UNION {{<<g, k>> : k \in 1..Len(groups[g].transactions)} : g \in 1..Len(groups)} :
        groups[p[1]].transactions[p[2]].original_index = i - 1}

RECURSIVE TotalMembers(_)
TotalMembers(gs) ==
    IF gs = <<>> THEN 0 ELSE Len(Head(gs).transactions) + TotalMembers(Tail(gs))

\* C28: group_transactions partitions the non-skipped input: every
\* non-skipped input event is a member of exactly one output group, no
\* skipped event is a member of any group, and no output group is empty.
C28_GroupsPartitionKeptEvents ==
    stage = "grouped" =>
        /\ \A i \in 1..Len(events) :
              IF SkipsTransaction(events[i])
              THEN PlacesOf(i) = {}
              ELSE /\ Cardinality(PlacesOf(i)) = 1
                   /\ \A p \in PlacesOf(i) :
                         groups[p[1]].transactions[p[2]]
                             = [events[i] EXCEPT !.original_index = i - 1]
        /\ \A g \in 1..Len(groups) : groups[g].transactions # <<>>
        /\ TotalMembers(groups) = Len(events) - skipped_count

\* of three events one was skipped and the other two share a group
C28_Witness ==
    /\ stage = "grouped"
    /\ Len(events) = 3
    /\ skipped_count = 1
    /\ Len(groups) = 1
    /\ Len(groups[1].transactions) = 2

\* ---- C29 ----
LedgerCurrencies == {BTC, ETH, BTC_DFI}

\* the orders in which n rows can be listed
RowOrders(n) == {f \in [1..n -> 1..n] : \A i, j \in 1..n : f[i] = f[j] => i = j}

\* the rows of year y replayed in the order f on the year's opening balances
Reordered(y, f) ==
    Replay([running |-> Report(y).starting_balances, problems |-> <<>>],
           [i \in 1..Len(yearly_files[y]) |-> yearly_files[y][f[i]]])

SameBalances(a, b) ==
    \A cur \in LedgerCurrencies : DecEq(BalanceOf(a, cur), BalanceOf(b, cur))

\* the sums of the year's incoming, outgoing and fee amounts in currency cur
IncomingIn(txs, cur) ==
    DecSum([i \in 1..Len(txs) |->
               IF txs[i].inn # None /\ txs[i].inn_valuta = cur THEN txs[i].inn[1]
               ELSE DecZero])

OutgoingIn(txs, cur) ==
    DecSum([i \in 1..Len(txs) |->
               IF txs[i].ut # None /\ txs[i].ut_valuta = cur THEN txs[i].ut[1]
               ELSE DecZero])

FeeIn(txs, cur) ==
    DecSum([i \in 1..Len(txs) |->
               IF txs[i].gebyr # None /\ txs[i].gebyr_valuta = cur THEN txs[i].gebyr[1]
               ELSE DecZero])

\* C29: each currency's final running balance of a year, before negligible
\* entries are dropped, is its opening balance plus the incoming amounts
\* minus the outgoing and the fee amounts of the year's rows in that
\* currency; so every permutation of the rows ends at the same balances,
\* whatever problem entries it records; and processing a year leaves the
\* recorded balances of every other year as they were.
C29_LedgerConservation ==
    \A y \in DOMAIN validation_results :
        /\ DOMAIN running_balances[y] \subseteq LedgerCurrencies
        /\ \A cur \in LedgerCurrencies :
              DecEq(BalanceOf(running_balances[y], cur),
                    DecSub(DecSub(DecAdd(BalanceOf(Report(y).starting_balances, cur),
                                         IncomingIn(yearly_files[y], cur)),
                                  OutgoingIn(yearly_files[y], cur)),
                           FeeIn(yearly_files[y], cur)))
        /\ \A f \in RowOrders(Len(yearly_files[y])) :
              /\ SameBalances(Reordered(y, f).running, running_balances[y])
              /\ DOMAIN KeptBalances(Reordered(y, f).running)
                    = DOMAIN Report(y).ending_balances
              /\ SameBalances(KeptBalances(Reordered(y, f).running),
                              Report(y).ending_balances)
        /\ balance_history[y] = Report(y).ending_balances
        /\ \A other \in (DOMAIN balance_history) \ (DOMAIN yearly_files) :
              /\ other \in DOMAIN loaded_history
              /\ balance_history[other] = loaded_history[other]
        /\ DOMAIN balance_history = (DOMAIN loaded_history) \cup (DOMAIN yearly_files)

\* a deposit of 1.0 BTC and a withdrawal of 3.5 BTC on an opening balance of
\* 2.0 BTC end at -0.5 BTC in either order, with a deficit of 0.5 as listed
\* and of 1.5 in the other order; the balances recorded for 2021 are as loaded
C29_Witness ==
    /\ FirstYear \in DOMAIN validation_results
    /\ yearly_files[FirstYear] = WithRows(<<Deposit10, Withdraw35>>)
    /\ DecEq(BalanceOf(running_balances[FirstYear], BTC), Dec(0 - 5, 0 - 1))
    /\ Len(Report(FirstYear).problematic_transactions) = 1
    /\ DecEq(Report(FirstYear).problematic_transactions[1].deficit, Dec(5, 0 - 1))
    /\ DecEq(Reordered(FirstYear, <<2, 1>>).problems[1].deficit, Dec(15, 0 - 1))
    /\ (FirstYear - 1) \in DOMAIN balance_history

\* ---- C30 ----
\* a canonical transaction as the ledger reads it (its fields by name; it
\* has no row number)
AsLedgerRow(k) ==
    Tx(0, k.type, k.inn, k.inn_valuta, k.ut, k.ut_valuta, k.gebyr, k.gebyr_valuta)

\* the balance of cur after the ledger has replayed k on empty balances
LedgerChange(k, cur) ==
    BalanceOf(Replay([running |-> EmptyMap, problems |-> <<>>],
                     <<AsLedgerRow(k)>>).running, cur)

\* the sum of the signed amounts of the member events in cur
SignedSum(txs, cur) ==
    DecSum([i \in 1..Len(txs) |->
               IF txs[i].coin_asset = cur THEN txs[i].amount ELSE DecZero])

\* a liquidity group with its result event and at least one leg; any swap group
IsCompleteGroup(group) ==
    LET txs == group.transactions
    IN  CASE group.group_type = "add_liquidity" ->
               /\ MembersLabelled(txs, ADDED_LIQUIDITY) # {}
               /\ MembersBeginning(txs, ADD_LIQUIDITY_PREFIX) # {}
          [] group.group_type = "remove_liquidity" ->
               /\ MembersLabelled(txs, REMOVED_LIQUIDITY) # {}
               /\ MembersBeginning(txs, REMOVE_LIQUIDITY_PREFIX) # {}
          [] OTHER -> group.group_type = "swap"

\* groups converted to one disposal-trade by their own rule
ConvertedToOneTrade ==
    {g \in 1..Len(groups) :
        /\ IsCompleteGroup(groups[g])
        /\ g \notin FallenBack
        /\ Len(conversions[g].txs) = 1
        /\ conversions[g].txs[1].type = HANDEL}

\* C30: when a complete swap, add-liquidity or remove-liquidity group is
\* converted to one disposal-trade and the ledger replays that transaction
\* (outgoing and fee slots debited, incoming credited), every currency's
\* balance changes by the sum of the signed amounts of the group's member
\* events in that currency.
C30_TradeReplayEqualsMemberAmounts ==
    stage = "converted" =>
        \A g \in ConvertedToOneTrade :
            \A cur \in {BTC, ETH, DFI, BTC_DFI, CSETH} :
                DecEq(LedgerChange(conversions[g].txs[1], cur),
                      SignedSum(groups[g].transactions, cur))

====
